---- MODULE Spec2Model ----
(***************************************************************************)
(* A model of the workers-ai Go client: the response decoder               *)
(* (ChatResponse.UnmarshalJSON), the accessors GetContent,                  *)
(* GetReasoningContent and GetToolCalls, and Client.ChatWithTools which     *)
(* decodes an HTTP response body into a fresh ChatResponse; and the request  *)
(* side: json.Marshal of the ChatCompletionRequest that ChatWithTools       *)
(* builds, and ChatCompletionRequest.UnmarshalJSON on the receiving side.   *)
(*                                                                         *)
(* Wire documents are JSON values in abstract syntax.  A Go string is a     *)
(* TLA+ string, except for text that holds JSON (tool-call arguments, raw   *)
(* fragments kept by json.RawMessage): that text is a sequence of tokens,   *)
(* so that whitespace and the shape of the text can be inspected.  A nil    *)
(* slice and an empty slice are both the empty sequence; a nil *string is   *)
(* <<>> and a pointer to s is <<s>>.                                        *)
(***************************************************************************)
EXTENDS Integers, Sequences, FiniteSets, TLC

VARIABLES
    pc,         \* "idle": no call in progress; "done": ChatWithTools returned
    body,       \* the HTTP response body of the call
    status,     \* the HTTP status of the call
    response,   \* the local `var response ChatResponse` of ChatWithTools
    branch,     \* the classification branch UnmarshalJSON took
    retResp,    \* TRUE iff ChatWithTools returned &response (FALSE: nil)
    retErr,     \* the error ChatWithTools returned ("nil": none)
    io,         \* the transport's outcome: "ok", "do error", "read error"
    nDo,        \* HTTP requests issued by the call (c.HTTPClient.Do)
    nUnmarshal, \* decodes of the response body done by the call
    rpc,        \* request side: "idle", "ready" (a body exists), "decoded"
    origin,     \* where the request body came from: "none", "marshal", "wire"
    request,    \* the ChatCompletionRequest built by ChatWithTools (origin "marshal")
    reqBody,    \* the request body
    req,        \* the ChatCompletionRequest the body was decoded into
    reqErr,     \* the error of that decode ("nil": none)
    params,     \* the model parameters the caller wants sent (<<>>: none)
    target,     \* a ChatResponse value a caller keeps and decodes into again
    lastData,   \* the bytes of the latest decode into target
    nDecodes,   \* decodes into target so far
    targetErr,  \* the error of the latest decode into target ("nil": none)
    cpc,        \* per caller: where its call stands ("idle", ..., "done")
    cop,        \* per caller: the operation it runs
    cinput,     \* per caller: the argument of its call
    cvalue,     \* per caller: the target (or output) of its call
    cerr,       \* per caller: the error its call returned ("nil": none)
    tempMem,    \* the storage of the calls' local `temp`, by slot
    vpc,        \* payload variants: "idle" or "decoded"
    vBase,      \* the payload as first sent
    vHow,       \* how the variant differs from it: key order, added field
    vWire,      \* the variant, its objects as the key/value lists on the wire
    vOut        \* the outcome of decoding the variant

respVars == <<pc, body, status, response, branch, retResp, retErr, io, nDo, nUnmarshal>>
reqVars == <<rpc, origin, request, reqBody, req, reqErr, params>>
reuseVars == <<target, lastData, nDecodes, targetErr>>
concVars == <<cpc, cop, cinput, cvalue, cerr, tempMem>>
variantVars == <<vpc, vBase, vHow, vWire, vOut>>
vars == <<respVars, reqVars, reuseVars, concVars, variantVars>>

\* What the actions of one side leave alone.
nonRespVars == <<reqVars, reuseVars, concVars, variantVars>>
nonReqVars == <<respVars, reuseVars, concVars, variantVars>>
nonReuseVars == <<respVars, reqVars, concVars, variantVars>>
nonConcVars == <<respVars, reqVars, reuseVars, variantVars>>
nonVariantVars == <<respVars, reqVars, reuseVars, concVars>>

MaxCallers == 2     \* goroutines that call into the package at the same time

Callers == 1..MaxCallers

(***************************************************************************)
(* Bounds of the enumerated wire payloads.                                  *)
(***************************************************************************)
MaxCalls == 2       \* longest result.tool_calls array
MaxChoices == 2     \* longest result.choices array

(***************************************************************************)
(* JSON values.                                                             *)
(***************************************************************************)
Absent == [k |-> "absent"]                  \* the key is not in the object
Null == [k |-> "null"]
Bool(b) == [k |-> "bool", b |-> b]
Str(s) == [k |-> "string", s |-> s]
StrT(t) == [k |-> "string", t |-> t]        \* a JSON string whose content is JSON text
Num(n) == [k |-> "number", n |-> n]
Arr(a) == [k |-> "array", a |-> a]
Obj(o) == [k |-> "object", o |-> o]
RawV(kind, t) == [k |-> kind, t |-> t]      \* a value given by its wire text

Get(v, key) ==
    IF v.k = "object" /\ "o" \in DOMAIN v /\ key \in DOMAIN v.o THEN v.o[key] ELSE Absent

RECURSIVE Join(_)
Join(t) == IF t = <<>> THEN "" ELSE Head(t) \o Join(Tail(t))

Compact(t) == SelectSeq(t, LAMBDA x : x # " ")

IsJSONObjectText(t) ==
    LET c == Compact(t) IN Len(c) >= 2 /\ c[1] = "{" /\ c[Len(c)] = "}"

RECURSIVE Digits(_)
Digits(n) == IF n < 10 THEN 1 ELSE 1 + Digits(n \div 10)

(***************************************************************************)
(* encoding/json decoding of one value into a typed Go target.  `old` is    *)
(* the target's value before the call: an absent key and (for non-pointer   *)
(* targets) a JSON null leave it unchanged.  A value of the wrong JSON type *)
(* leaves the target unchanged and makes Unmarshal return an                *)
(* UnmarshalTypeError after the rest of the document has been decoded.      *)
(***************************************************************************)
R(val, err) == [val |-> val, err |-> err]

DecString(v, old) ==
    CASE v.k = "string" -> R(IF "s" \in DOMAIN v THEN v.s ELSE Join(v.t), FALSE)
      [] v.k \in {"absent", "null"} -> R(old, FALSE)
      [] OTHER -> R(old, TRUE)

DecText(v, old) ==
    CASE v.k = "string" -> R(IF "t" \in DOMAIN v THEN v.t ELSE <<v.s>>, FALSE)
      [] v.k \in {"absent", "null"} -> R(old, FALSE)
      [] OTHER -> R(old, TRUE)

DecStringPtr(v, old) ==
    CASE v.k = "string" -> R(<<v.s>>, FALSE)
      [] v.k = "null" -> R(<<>>, FALSE)
      [] v.k = "absent" -> R(old, FALSE)
      [] OTHER -> R(old, TRUE)

DecInt(v, old) ==
    CASE v.k = "number" -> R(v.n, FALSE)
      [] v.k \in {"absent", "null"} -> R(old, FALSE)
      [] OTHER -> R(old, TRUE)

DecBool(v, old) ==
    CASE v.k = "bool" -> R(v.b, FALSE)
      [] v.k \in {"absent", "null"} -> R(old, FALSE)
      [] OTHER -> R(old, TRUE)

\* json.RawMessage: the value's wire text, kept as it is (a JSON null too).
RawText(v) ==
    CASE "t" \in DOMAIN v /\ v.k # "string" -> v.t
      [] v.k = "null" -> <<"null">>
      [] OTHER -> <<>>

DecRawMessage(v, old) == IF v.k = "absent" THEN old ELSE RawText(v)

\* The elements of a JSON array (none for any other value).
Elems(v) == IF v.k = "array" THEN v.a ELSE <<>>

\* Decoding a JSON array into a slice; rs holds the outcome of decoding each
\* element into the zero value of the element type.
DecSlice(v, old, rs) ==
    CASE v.k = "array" ->
            R([i \in 1..Len(rs) |-> rs[i].val], \E i \in 1..Len(rs) : rs[i].err)
      [] v.k = "null" -> R(<<>>, FALSE)
      [] v.k = "absent" -> R(old, FALSE)
      [] OTHER -> R(old, TRUE)

(***************************************************************************)
(* The Go types of the response and their decoding.                         *)
(***************************************************************************)
ZeroUsage == [PromptTokens |-> 0, CompletionTokens |-> 0, TotalTokens |-> 0]

DecUsage(v, old) ==
    CASE v.k = "object" ->
            LET p == DecInt(Get(v, "prompt_tokens"), old.PromptTokens)
                c == DecInt(Get(v, "completion_tokens"), old.CompletionTokens)
                t == DecInt(Get(v, "total_tokens"), old.TotalTokens)
            IN R([PromptTokens |-> p.val, CompletionTokens |-> c.val,
                  TotalTokens |-> t.val], p.err \/ c.err \/ t.err)
      [] v.k \in {"absent", "null"} -> R(old, FALSE)
      [] OTHER -> R(old, TRUE)

ZeroFunctionToCall == [Name |-> "", Arguments |-> <<>>]

DecFunctionToCall(v, old) ==
    CASE v.k = "object" ->
            LET n == DecString(Get(v, "name"), old.Name)
                a == DecText(Get(v, "arguments"), old.Arguments)
            IN R([Name |-> n.val, Arguments |-> a.val], n.err \/ a.err)
      [] v.k \in {"absent", "null"} -> R(old, FALSE)
      [] OTHER -> R(old, TRUE)

ZeroToolCall == [ID |-> "", Type |-> "", Function |-> ZeroFunctionToCall]

DecToolCall(v) ==
    CASE v.k = "object" ->
            LET i == DecString(Get(v, "id"), "")
                t == DecString(Get(v, "type"), "")
                f == DecFunctionToCall(Get(v, "function"), ZeroFunctionToCall)
            IN R([ID |-> i.val, Type |-> t.val, Function |-> f.val],
                 i.err \/ t.err \/ f.err)
      [] v.k \in {"absent", "null"} -> R(ZeroToolCall, FALSE)
      [] OTHER -> R(ZeroToolCall, TRUE)

DecToolCalls(v, old) ==
    DecSlice(v, old, [i \in 1..Len(Elems(v)) |-> DecToolCall(Elems(v)[i])])

ZeroResponseMessage ==
    [Role |-> "", Content |-> <<>>, ToolCalls |-> <<>>, ReasoningContent |-> ""]

DecResponseMessage(v, old) ==
    CASE v.k = "object" ->
            LET r == DecString(Get(v, "role"), old.Role)
                c == DecStringPtr(Get(v, "content"), old.Content)
                t == DecToolCalls(Get(v, "tool_calls"), old.ToolCalls)
                rc == DecString(Get(v, "reasoning_content"), old.ReasoningContent)
            IN R([Role |-> r.val, Content |-> c.val, ToolCalls |-> t.val,
                  ReasoningContent |-> rc.val],
                 r.err \/ c.err \/ t.err \/ rc.err)
      [] v.k \in {"absent", "null"} -> R(old, FALSE)
      [] OTHER -> R(old, TRUE)

ZeroChoice == [Index |-> 0, Message |-> ZeroResponseMessage, FinishReason |-> ""]

DecChoice(v) ==
    CASE v.k = "object" ->
            LET i == DecInt(Get(v, "index"), 0)
                m == DecResponseMessage(Get(v, "message"), ZeroResponseMessage)
                f == DecString(Get(v, "finish_reason"), "")
            IN R([Index |-> i.val, Message |-> m.val, FinishReason |-> f.val],
                 i.err \/ m.err \/ f.err)
      [] v.k \in {"absent", "null"} -> R(ZeroChoice, FALSE)
      [] OTHER -> R(ZeroChoice, TRUE)

DecChoices(v, old) ==
    DecSlice(v, old, [i \in 1..Len(Elems(v)) |-> DecChoice(Elems(v)[i])])

ZeroChatCompletionResponse ==
    [ID |-> "", Object |-> "", Created |-> 0, Model |-> "",
     Choices |-> <<>>, Usage |-> ZeroUsage]

DecChatCompletionResponse(v, old) ==
    CASE v.k = "object" /\ "o" \in DOMAIN v ->
            LET i == DecString(Get(v, "id"), old.ID)
                o == DecString(Get(v, "object"), old.Object)
                c == DecInt(Get(v, "created"), old.Created)
                m == DecString(Get(v, "model"), old.Model)
                ch == DecChoices(Get(v, "choices"), old.Choices)
                u == DecUsage(Get(v, "usage"), old.Usage)
            IN R([ID |-> i.val, Object |-> o.val, Created |-> c.val, Model |-> m.val,
                  Choices |-> ch.val, Usage |-> u.val],
                 i.err \/ o.err \/ c.err \/ m.err \/ ch.err \/ u.err)
      [] v.k \in {"absent", "null"} -> R(old, FALSE)
      [] OTHER -> R(old, TRUE)

ZeroLegacyToolCall == [Name |-> "", Arguments |-> <<>>]

DecLegacyToolCall(v) ==
    CASE v.k = "object" ->
            LET n == DecString(Get(v, "name"), "")
            IN R([Name |-> n.val,
                  Arguments |-> DecRawMessage(Get(v, "arguments"), <<>>)], n.err)
      [] v.k \in {"absent", "null"} -> R(ZeroLegacyToolCall, FALSE)
      [] OTHER -> R(ZeroLegacyToolCall, TRUE)

DecLegacyToolCalls(v, old) ==
    DecSlice(v, old, [i \in 1..Len(Elems(v)) |-> DecLegacyToolCall(Elems(v)[i])])

ZeroLegacyResponse == [Response |-> "", ToolCalls |-> <<>>, Usage |-> ZeroUsage]

DecLegacyResponse(v, old) ==
    CASE v.k = "object" /\ "o" \in DOMAIN v ->
            LET r == DecString(Get(v, "response"), old.Response)
                t == DecLegacyToolCalls(Get(v, "tool_calls"), old.ToolCalls)
                u == DecUsage(Get(v, "usage"), old.Usage)
            IN R([Response |-> r.val, ToolCalls |-> t.val, Usage |-> u.val],
                 r.err \/ t.err \/ u.err)
      [] v.k \in {"absent", "null"} -> R(old, FALSE)
      [] OTHER -> R(old, TRUE)

(***************************************************************************)
(* ChatResponse and ChatResponse.UnmarshalJSON.                             *)
(***************************************************************************)
\* Mutant: the target already holds a legacy payload from an earlier decode.
ZeroChatResponse_StaleLegacy ==
    [Success |-> FALSE, Errors |-> <<>>, Messages |-> <<>>, ResultRaw |-> Absent,
     IsLegacyResult |-> FALSE,
     ChatCompletionResponse |-> ZeroChatCompletionResponse,
     LegacyResponse |-> [Response |-> "stale", ToolCalls |-> <<>>,
                         Usage |-> ZeroUsage]]

ZeroChatResponse ==
    [Success |-> FALSE, Errors |-> <<>>, Messages |-> <<>>, ResultRaw |-> Absent,
     IsLegacyResult |-> FALSE,
     ChatCompletionResponse |-> ZeroChatCompletionResponse,
     LegacyResponse |-> ZeroLegacyResponse]

DecErrorString(v) == DecString(v, "")

DecAny(v) == R(v, FALSE)

\* json.Unmarshal(data, &temp) into a zero TempChatResponse.
DecTempChatResponse(v) ==
    CASE v.k = "object" ->
            LET s == DecBool(Get(v, "success"), FALSE)
                e == DecSlice(Get(v, "errors"), <<>>,
                               [i \in 1..Len(Elems(Get(v, "errors"))) |->
                                    DecErrorString(Elems(Get(v, "errors"))[i])])
                m == DecSlice(Get(v, "messages"), <<>>,
                               [i \in 1..Len(Elems(Get(v, "messages"))) |->
                                    DecAny(Elems(Get(v, "messages"))[i])])
            IN R([Success |-> s.val, Errors |-> e.val, Messages |-> m.val,
                  ResultRaw |-> Get(v, "result")], s.err \/ e.err \/ m.err)
      [] v.k = "null" ->
            R([Success |-> FALSE, Errors |-> <<>>, Messages |-> <<>>,
               ResultRaw |-> Absent], FALSE)
      [] OTHER ->
            R([Success |-> FALSE, Errors |-> <<>>, Messages |-> <<>>,
               ResultRaw |-> Absent], TRUE)

\* len(cr.ResultRaw): the length of the wire text of `result`.  An array or
\* an object is at least the two bytes of its brackets, which is all the
\* guard compares against.
RawLen(v) ==
    CASE v.k = "absent" -> 0
      [] v.k = "null" -> 4
      [] v.k = "bool" -> IF v.b THEN 4 ELSE 5
      [] v.k = "number" -> Digits(v.n)
      [] v.k = "string" -> 2
      [] OTHER -> 2

\* The ID of one element of the probe's tool_calls; a decoding error is
\* ignored and leaves the ID empty.
ProbeID(e) == DecString(Get(e, "id"), "").val

\* Mutant: a `choices` key with the value null counts as present.
ResultProbe_NullChoicesPresent(v) ==
    LET ch == Get(v, "choices")
        tc == Get(v, "tool_calls")
    IN [Choices |-> ch.k # "absent",
        ToolCallsNil |-> tc.k \in {"absent", "null"},
        ToolCalls |-> IF tc.k = "array"
                      THEN [i \in 1..Len(tc.a) |-> ProbeID(tc.a[i])]
                      ELSE <<>>]

\* json.Unmarshal(cr.ResultRaw, &probe), its error ignored.
ResultProbe(v) ==
    LET ch == Get(v, "choices")
        tc == Get(v, "tool_calls")
    IN [Choices |-> ch.k \notin {"absent", "null"},
        ToolCallsNil |-> tc.k \in {"absent", "null"},
        ToolCalls |-> IF tc.k = "array"
                      THEN [i \in 1..Len(tc.a) |-> ProbeID(tc.a[i])]
                      ELSE <<>>]

\* Mutant: a tool call with an id anywhere in the list makes it hybrid.
IsHybrid_AnyID(probe) ==
    ~probe.ToolCallsNil /\ \E i \in 1..Len(probe.ToolCalls) : probe.ToolCalls[i] # ""

\* Mutant: any non-empty tool_calls counts as hybrid, with or without an id.
IsHybrid_NoIDCheck(probe) == ~probe.ToolCallsNil /\ Len(probe.ToolCalls) > 0

IsHybrid(probe) ==
    ~probe.ToolCallsNil /\ Len(probe.ToolCalls) > 0 /\ probe.ToolCalls[1] # ""

\* Mutant: the hybrid test takes priority over the presence of `choices`.
IsStandard_AfterHybrid(probe) == probe.Choices /\ ~IsHybrid(probe)

IsStandard(probe) == probe.Choices

\* Mutant: the hybrid branch does not read `usage`.
DecHybridResult_NoUsage(v) ==
    LET t == DecToolCalls(Get(v, "tool_calls"), <<>>)
    IN R([ToolCalls |-> t.val, Usage |-> ZeroUsage], t.err)

\* The anonymous struct {ToolCalls, Usage} of the hybrid branch.
DecHybridResult(v) ==
    CASE v.k = "object" ->
            LET t == DecToolCalls(Get(v, "tool_calls"), <<>>)
                u == DecUsage(Get(v, "usage"), ZeroUsage)
            IN R([ToolCalls |-> t.val, Usage |-> u.val], t.err \/ u.err)
      [] v.k \in {"absent", "null"} -> R([ToolCalls |-> <<>>, Usage |-> ZeroUsage], FALSE)
      [] OTHER -> R([ToolCalls |-> <<>>, Usage |-> ZeroUsage], TRUE)

\* Mutant: the synthesized choice does not carry the tool calls.
HybridChoice_NoToolCalls(toolCalls) ==
    [Index |-> 0,
     Message |-> [Role |-> "assistant", Content |-> <<>>, ToolCalls |-> <<>>,
                  ReasoningContent |-> ""],
     FinishReason |-> ""]

HybridChoice(toolCalls) ==
    [Index |-> 0,
     Message |-> [Role |-> "assistant", Content |-> <<>>, ToolCalls |-> toolCalls,
                  ReasoningContent |-> ""],
     FinishReason |-> ""]

ErrNil == "nil"
ErrShell == "failed to unmarshal initial response shell"
ErrHybrid == "failed to parse hybrid response result"
ErrType == "json: cannot unmarshal"

U(cr, err, br) == [cr |-> cr, err |-> err, branch |-> br]

\* "Copy the definite top-level fields": temp's fields into the receiver.
CopyShell(cr, temp) ==
    [cr EXCEPT !.Success = temp.Success,
               !.Errors = temp.Errors,
               !.Messages = temp.Messages,
               !.ResultRaw = temp.ResultRaw]

\* UnmarshalJSON from the length guard on: the classification of
\* cr1.ResultRaw and the decode of the payload into the receiver cr1.
DecodeResult(cr1) ==
    LET probe == ResultProbe(cr1.ResultRaw) IN
    IF RawLen(cr1.ResultRaw) < 2 THEN U(cr1, ErrNil, "None")
    ELSE IF IsStandard(probe) THEN
        LET d == DecChatCompletionResponse(cr1.ResultRaw, cr1.ChatCompletionResponse)
        IN U([cr1 EXCEPT !.IsLegacyResult = FALSE, !.ChatCompletionResponse = d.val],
             IF d.err THEN ErrType ELSE ErrNil, "Standard")
    ELSE IF IsHybrid(probe) THEN
        LET result == DecHybridResult(cr1.ResultRaw)
            cr2 == [cr1 EXCEPT !.IsLegacyResult = FALSE]
        IN IF result.err THEN U(cr2, ErrHybrid, "Hybrid")
           ELSE U([cr2 EXCEPT
                      !.ChatCompletionResponse.Choices =
                          <<HybridChoice(result.val.ToolCalls)>>,
                      !.ChatCompletionResponse.Usage = result.val.Usage],
                  ErrNil, "Hybrid")
    ELSE
        LET d == DecLegacyResponse(cr1.ResultRaw, cr1.LegacyResponse)
        IN U([cr1 EXCEPT !.IsLegacyResult = TRUE, !.LegacyResponse = d.val],
             IF d.err THEN ErrType ELSE ErrNil, "Legacy")

\* Mutant: the bytes are never found to be malformed.
SyntaxError_Never(data) == FALSE

\* The bytes are not well-formed JSON: json.Unmarshal returns a syntax error
\* before it decodes anything.
SyntaxError(data) == ~data.valid

\* UnmarshalJSON(data) on the receiver cr.  data is [valid, doc]: whether the
\* bytes are well-formed JSON, and the document they hold.
UnmarshalJSON(cr, data) ==
    IF SyntaxError(data) THEN U(cr, ErrShell, "None")
    ELSE
    LET temp == DecTempChatResponse(data.doc) IN
    IF temp.err THEN U(cr, ErrShell, "None")
    ELSE DecodeResult(CopyShell(cr, temp.val))

(***************************************************************************)
(* The accessors of ChatResponse.                                           *)
(***************************************************************************)
\* Mutant: a null content falls back to the reasoning content.
GetContent_ReasoningFallback(r) ==
    IF r.IsLegacyResult THEN r.LegacyResponse.Response
    ELSE IF Len(r.ChatCompletionResponse.Choices) > 0
         THEN IF r.ChatCompletionResponse.Choices[1].Message.Content # <<>>
              THEN r.ChatCompletionResponse.Choices[1].Message.Content[1]
              ELSE r.ChatCompletionResponse.Choices[1].Message.ReasoningContent
         ELSE ""

GetContent(r) ==
    IF r.IsLegacyResult THEN r.LegacyResponse.Response
    ELSE IF Len(r.ChatCompletionResponse.Choices) > 0
            /\ r.ChatCompletionResponse.Choices[1].Message.Content # <<>>
         THEN r.ChatCompletionResponse.Choices[1].Message.Content[1]
         ELSE ""

\* Mutant: the last choice is read instead of the first.
GetReasoningContent_LastChoice(r) ==
    IF Len(r.ChatCompletionResponse.Choices) > 0
    THEN r.ChatCompletionResponse.Choices[Len(r.ChatCompletionResponse.Choices)]
            .Message.ReasoningContent
    ELSE ""

GetReasoningContent(r) ==
    IF Len(r.ChatCompletionResponse.Choices) > 0
    THEN r.ChatCompletionResponse.Choices[1].Message.ReasoningContent
    ELSE ""

\* Mutant: the ids are numbered from 1.
LegacyToolCallID_OneBased(i) == "legacy-tool-call-" \o ToString(i + 1)

\* fmt.Sprintf("legacy-tool-call-%d", i), i the 0-based index of the call.
LegacyToolCallID(i) == "legacy-tool-call-" \o ToString(i)

\* Mutant: the arguments are compacted on the way out.
AdaptLegacyToolCall_Compacting(p, legacyCall) ==
    [ID |-> LegacyToolCallID(p - 1),
     Type |-> "function",
     Function |-> [Name |-> legacyCall.Name,
                   Arguments |-> Compact(legacyCall.Arguments)]]

\* Position p (1-based here) of the adapted list is Go's index p - 1.
AdaptLegacyToolCall(p, legacyCall) ==
    [ID |-> LegacyToolCallID(p - 1),
     Type |-> "function",
     Function |-> [Name |-> legacyCall.Name, Arguments |-> legacyCall.Arguments]]

\* Mutant: the modern branch reads the last choice instead of the first.
GetToolCalls_LastChoice(r) ==
    IF r.IsLegacyResult
    THEN [p \in 1..Len(r.LegacyResponse.ToolCalls) |->
             AdaptLegacyToolCall(p, r.LegacyResponse.ToolCalls[p])]
    ELSE IF Len(r.ChatCompletionResponse.Choices) > 0
         THEN r.ChatCompletionResponse.Choices[Len(r.ChatCompletionResponse.Choices)]
                .Message.ToolCalls
         ELSE <<>>

GetToolCalls(r) ==
    IF r.IsLegacyResult
    THEN [p \in 1..Len(r.LegacyResponse.ToolCalls) |->
             AdaptLegacyToolCall(p, r.LegacyResponse.ToolCalls[p])]
    ELSE IF Len(r.ChatCompletionResponse.Choices) > 0
         THEN r.ChatCompletionResponse.Choices[1].Message.ToolCalls
         ELSE <<>>

\* The usage of the payload the flag selects, as a caller reads it.
SelectedUsage(r) ==
    IF r.IsLegacyResult THEN r.LegacyResponse.Usage
    ELSE r.ChatCompletionResponse.Usage

(***************************************************************************)
(* The request side: the message variants, their encoding by json.Marshal   *)
(* and ChatCompletionRequest.UnmarshalJSON.  A Message (an interface value) *)
(* is [type, val]: the name of its concrete type and the struct.            *)
(***************************************************************************)
Msg(type, val) == [type |-> type, val |-> val]

NilMessage == [type |-> "nil"]      \* an element of r.Messages not yet assigned

ZeroChatMessage == [Role |-> "", Content |-> "", ToolCalls |-> <<>>]

ZeroToolMessage == [Role |-> "", Content |-> "", ToolCallID |-> ""]

ZeroTool == [Type |-> "", Function |-> [Name |-> "", Description |-> ""]]

ZeroChatCompletionRequest ==
    [Model |-> "", Messages |-> <<>>, Tools |-> <<>>, Stream |-> FALSE]

\* A Go string holding bytes that are not valid UTF-8, and what json.Marshal
\* writes for it: each invalid byte becomes U+FFFD.
InvalidUTF8 == "<0xff>"
ReplacementChar == "<U+FFFD>"

\* json.Marshal of a string.
EncString(s) == Str(IF s = InvalidUTF8 THEN ReplacementChar ELSE s)

\* json.Marshal of a string that holds JSON text: one JSON string.
EncText(t) == StrT(t)

\* A field tagged omitempty: left out when it holds its empty value.
OmitEmpty(isEmpty, v) == IF isEmpty THEN Absent ELSE v

\* Mutant: the arguments are written as a JSON object, not as a string.
EncFunctionToCall_RawArguments(f) ==
    Obj([name |-> EncString(f.Name), arguments |-> RawV("object", f.Arguments)])

EncFunctionToCall(f) ==
    Obj([name |-> EncString(f.Name), arguments |-> EncText(f.Arguments)])

EncToolCall(tc) ==
    Obj([id |-> EncString(tc.ID), type |-> EncString(tc.Type),
         function |-> EncFunctionToCall(tc.Function)])

EncToolCalls(tcs) == Arr([i \in 1..Len(tcs) |-> EncToolCall(tcs[i])])

EncChatMessage(m) ==
    Obj([role |-> EncString(m.Role),
         content |-> OmitEmpty(m.Content = "", EncString(m.Content)),
         tool_calls |-> OmitEmpty(m.ToolCalls = <<>>, EncToolCalls(m.ToolCalls))])

EncToolMessage(m) ==
    Obj([role |-> EncString(m.Role),
         content |-> EncString(m.Content),
         tool_call_id |-> EncString(m.ToolCallID)])

\* Content is a *string without omitempty: nil is written as `null`.
EncResponseMessage(m) ==
    Obj([role |-> EncString(m.Role),
         content |-> IF m.Content = <<>> THEN Null ELSE EncString(m.Content[1]),
         tool_calls |-> OmitEmpty(m.ToolCalls = <<>>, EncToolCalls(m.ToolCalls)),
         reasoning_content |->
            OmitEmpty(m.ReasoningContent = "", EncString(m.ReasoningContent))])

EncMessage(msg) ==
    CASE msg.type = "ChatMessage" -> EncChatMessage(msg.val)
      [] msg.type = "ToolMessage" -> EncToolMessage(msg.val)
      [] msg.type = "ResponseMessage" -> EncResponseMessage(msg.val)
      [] OTHER -> Null

\* The schema of a tool's parameters is not part of the model.
EncTool(t) ==
    Obj([type |-> EncString(t.Type),
         function |->
            Obj([name |-> EncString(t.Function.Name),
                 description |-> OmitEmpty(t.Function.Description = "",
                                           EncString(t.Function.Description))])])

\* json.Marshal(request).
EncChatCompletionRequest(r) ==
    Obj([model |-> EncString(r.Model),
         messages |-> Arr([i \in 1..Len(r.Messages) |-> EncMessage(r.Messages[i])]),
         tools |-> OmitEmpty(r.Tools = <<>>,
                             Arr([i \in 1..Len(r.Tools) |-> EncTool(r.Tools[i])])),
         stream |-> OmitEmpty(~r.Stream, Bool(r.Stream))])

\* json.Unmarshal(rawMsg, &msg) into a zero ChatMessage.
DecChatMessage(v) ==
    CASE v.k = "object" ->
            LET r == DecString(Get(v, "role"), "")
                c == DecString(Get(v, "content"), "")
                t == DecToolCalls(Get(v, "tool_calls"), <<>>)
            IN R([Role |-> r.val, Content |-> c.val, ToolCalls |-> t.val],
                 r.err \/ c.err \/ t.err)
      [] v.k = "null" -> R(ZeroChatMessage, FALSE)
      [] OTHER -> R(ZeroChatMessage, TRUE)

\* json.Unmarshal(rawMsg, &msg) into a zero ToolMessage.
DecToolMessage(v) ==
    CASE v.k = "object" ->
            LET r == DecString(Get(v, "role"), "")
                c == DecString(Get(v, "content"), "")
                i == DecString(Get(v, "tool_call_id"), "")
            IN R([Role |-> r.val, Content |-> c.val, ToolCallID |-> i.val],
                 r.err \/ c.err \/ i.err)
      [] v.k = "null" -> R(ZeroToolMessage, FALSE)
      [] OTHER -> R(ZeroToolMessage, TRUE)

DecTool(v) ==
    CASE v.k = "object" ->
            LET t == DecString(Get(v, "type"), "")
                n == DecString(Get(Get(v, "function"), "name"), "")
                d == DecString(Get(Get(v, "function"), "description"), "")
                f == Get(v, "function")
            IN R([Type |-> t.val, Function |-> [Name |-> n.val, Description |-> d.val]],
                 t.err \/ n.err \/ d.err \/ f.k \notin {"object", "absent", "null"})
      [] v.k \in {"absent", "null"} -> R(ZeroTool, FALSE)
      [] OTHER -> R(ZeroTool, TRUE)

DecTools(v, old) ==
    DecSlice(v, old, [i \in 1..Len(Elems(v)) |-> DecTool(Elems(v)[i])])

ErrReqShell == "failed to unmarshal request shell"
ErrProbeRole == "failed to probe message role"
ErrChatMessage == "failed to unmarshal ChatMessage"
ErrResponseMessage == "failed to unmarshal ResponseMessage"
ErrAssistantChatMessage == "failed to unmarshal assistant ChatMessage"
ErrToolMessage == "failed to unmarshal ToolMessage"
ErrUnknownRole(role) == "unknown message role found: " \o role
ErrPanic == "panic: nil pointer dereference"

\* The probe struct {Role string}: json.Unmarshal(rawMsg, &probe).
RoleProbe(rawMsg) ==
    CASE rawMsg.k = "object" -> DecString(Get(rawMsg, "role"), "")
      [] rawMsg.k = "null" -> R("", FALSE)
      [] OTHER -> R("", TRUE)

\* The probe struct {ToolCalls []ToolCall}; the error of its decoding is
\* ignored, only the length of what was decoded is looked at.
ToolCallProbe(rawMsg) == DecToolCalls(Get(rawMsg, "tool_calls"), <<>>).val

ME(val, err) == [val |-> val, err |-> err]

\* Mutant: an assistant message is always decoded as a ChatMessage.
DecMessage_NoToolCallProbe(rawMsg) ==
    LET probe == RoleProbe(rawMsg) IN
    IF probe.err THEN ME(NilMessage, ErrProbeRole)
    ELSE CASE probe.val \in {"user", "system", "assistant"} ->
                LET d == DecChatMessage(rawMsg)
                IN IF d.err THEN ME(NilMessage, ErrChatMessage)
                   ELSE ME(Msg("ChatMessage", d.val), ErrNil)
           [] probe.val = "tool" ->
                LET d == DecToolMessage(rawMsg)
                IN IF d.err THEN ME(NilMessage, ErrToolMessage)
                   ELSE ME(Msg("ToolMessage", d.val), ErrNil)
           [] OTHER -> ME(NilMessage, ErrUnknownRole(probe.val))

\* The body of the loop over temp.Messages: the message decoded from one
\* raw element, or the error the loop returns with.
DecMessage(rawMsg) ==
    LET probe == RoleProbe(rawMsg) IN
    IF probe.err THEN ME(NilMessage, ErrProbeRole)
    ELSE CASE probe.val \in {"user", "system"} ->
                LET d == DecChatMessage(rawMsg)
                IN IF d.err THEN ME(NilMessage, ErrChatMessage)
                   ELSE ME(Msg("ChatMessage", d.val), ErrNil)
           [] probe.val = "assistant" ->
                IF Len(ToolCallProbe(rawMsg)) > 0
                THEN LET d == DecResponseMessage(rawMsg, ZeroResponseMessage)
                     IN IF d.err THEN ME(NilMessage, ErrResponseMessage)
                        ELSE ME(Msg("ResponseMessage", d.val), ErrNil)
                ELSE LET d == DecChatMessage(rawMsg)
                     IN IF d.err THEN ME(NilMessage, ErrAssistantChatMessage)
                        ELSE ME(Msg("ChatMessage", d.val), ErrNil)
           [] probe.val = "tool" ->
                LET d == DecToolMessage(rawMsg)
                IN IF d.err THEN ME(NilMessage, ErrToolMessage)
                   ELSE ME(Msg("ToolMessage", d.val), ErrNil)
           [] OTHER -> ME(NilMessage, ErrUnknownRole(probe.val))

\* The first position of rs whose decoding failed; Len(rs) + 1 if none did.
FirstFailure(rs) ==
    IF \E i \in 1..Len(rs) : rs[i].err # ErrNil
    THEN CHOOSE i \in 1..Len(rs) :
            /\ rs[i].err # ErrNil
            /\ \A j \in 1..(i - 1) : rs[j].err = ErrNil
    ELSE Len(rs) + 1

\* temp.Messages ([]json.RawMessage) after the shell decode.
DecRawMessages(v) ==
    CASE v.k = "array" -> R(v.a, FALSE)
      [] v.k \in {"absent", "null"} -> R(<<>>, FALSE)
      [] OTHER -> R(<<>>, TRUE)

\* Mutant: the loop skips a message it cannot decode and goes on.
RequestLoop_SkipFailures(r, raw) ==
    LET rs == [i \in 1..Len(raw) |-> DecMessage(raw[i])]
    IN [r |-> [r EXCEPT !.Messages = [i \in 1..Len(raw) |-> rs[i].val]],
        err |-> ErrNil]

\* r.Messages = make([]Message, len(temp.Messages)) and the loop: messages
\* are decoded in order, and the first failure returns with the rest of the
\* list still nil.
RequestLoop(r, raw) ==
    LET rs == [i \in 1..Len(raw) |-> DecMessage(raw[i])]
        f == FirstFailure(rs)
    IN [r |-> [r EXCEPT !.Messages =
                    [i \in 1..Len(raw) |-> IF i < f THEN rs[i].val ELSE NilMessage]],
        err |-> IF f <= Len(raw) THEN rs[f].err ELSE ErrNil]

\* ChatCompletionRequest.UnmarshalJSON up to the loop: the shell decode, which
\* writes model, tools and stream straight into r (temp embeds r as *Alias)
\* and keeps the raw messages in temp.  A top-level `null` sets the pointer
\* temp itself to nil, and the following len(temp.Messages) dereferences it.
RequestShell(r, data) ==
    IF ~data.valid THEN [r |-> r, err |-> ErrReqShell, raw |-> <<>>]
    ELSE IF data.doc.k = "null" THEN [r |-> r, err |-> ErrPanic, raw |-> <<>>]
    ELSE IF data.doc.k # "object" THEN [r |-> r, err |-> ErrReqShell, raw |-> <<>>]
    ELSE
    LET v == data.doc
        m == DecString(Get(v, "model"), r.Model)
        t == DecTools(Get(v, "tools"), r.Tools)
        s == DecBool(Get(v, "stream"), r.Stream)
        raw == DecRawMessages(Get(v, "messages"))
        r1 == [r EXCEPT !.Model = m.val, !.Tools = t.val, !.Stream = s.val]
    IN IF m.err \/ t.err \/ s.err \/ raw.err
       THEN [r |-> r1, err |-> ErrReqShell, raw |-> <<>>]
       ELSE [r |-> r1, err |-> ErrNil, raw |-> raw.val]

\* ChatCompletionRequest.UnmarshalJSON(data) on the receiver r.
RequestUnmarshalJSON(r, data) ==
    LET sh == RequestShell(r, data)
    IN IF sh.err # ErrNil THEN [r |-> sh.r, err |-> sh.err]
       ELSE RequestLoop(sh.r, sh.raw)

(***************************************************************************)
(* The response bodies a server may send: every combination of the fields   *)
(* the decoder looks at, well typed and wrongly typed.                      *)
(***************************************************************************)
SeqsUpTo(S, n) == UNION {[1..m -> S] : m \in 0..n}

\* Wire texts of a legacy tool call's `arguments`.
ArgObject == <<"{", "\"Over\"", ":", "3.5", ",", "\"Value\"", ":", "2", "}">>
ArgObjectSpaced ==
    <<"{", " ", "\"Over\"", ":", " ", "3.5", ",", " ", "\"Value\"", ":", " ", "2", " ", "}">>
ArgEmptyObject == <<"{", "}">>

WireArguments ==
    {Absent, Null,
     RawV("object", ArgObject), RawV("object", ArgObjectSpaced),
     RawV("object", ArgEmptyObject),
     RawV("number", <<"5">>), RawV("rawstring", <<"\"{}\"">>)}

TcModern(id) ==
    Obj([id |-> id, type |-> Str("function"),
         function |-> Obj([name |-> Str("get_weather"),
                           arguments |-> StrT(ArgEmptyObject)])])

TcLegacy(name, args) == Obj([name |-> Str(name), arguments |-> args])

WireModernCalls == {TcModern(Str("call_abc")), TcModern(Str("")), TcModern(Num(7))}

WireLegacyCalls == {TcLegacy("gablorken", a) : a \in WireArguments}

WireToolCalls ==
    {Absent, Null, Str("oops")}
        \cup {Arr(a) : a \in SeqsUpTo(WireModernCalls \cup WireLegacyCalls, MaxCalls)}

WireUsages ==
    {Absent,
     Obj([prompt_tokens |-> Num(28), completion_tokens |-> Num(17),
          total_tokens |-> Num(45)])}

\* The wire text of a `response` that is a JSON object.
ResponseObjectText == <<"{", "\"server_id\"", ":", " ", "\"foobar\"", "}">>

WireResponses ==
    {Absent, Null, Str("This is a legacy response."),
     RawV("object", ResponseObjectText)}

WireMessages ==
    {Obj([role |-> Str("assistant"), content |-> c, reasoning_content |-> rc,
          tool_calls |-> tc]) :
        c \in {Absent, Null, Str("Hello there!")},
        rc \in {Absent, Str("thinking")},
        tc \in {Absent, Arr(<<TcModern(Str("call_openai_123"))>>)}}
        \cup {Obj([role |-> Str("assistant"), content |-> Null,
                   reasoning_content |-> Absent,
                   tool_calls |-> Arr(<<TcModern(Str("call_openai_123")),
                                        TcModern(Str("call_abc"))>>)])}

WireChoiceElems ==
    {Obj([index |-> Num(0), message |-> m, finish_reason |-> Str("stop")]) :
        m \in WireMessages}

WireChoicesPresent ==
    {Str("oops")} \cup {Arr(a) : a \in SeqsUpTo(WireChoiceElems, MaxChoices)}

ResultObj(ch, tc, rs, us) ==
    Obj([choices |-> ch, tool_calls |-> tc, response |-> rs, usage |-> us])

WireResults ==
    {Absent, Null, Num(7), Obj([usage |-> Absent])}
        \cup {ResultObj(ch, tc, rs, us) :
                ch \in WireChoicesPresent,
                tc \in {Absent, Arr(<<TcModern(Str("call_abc"))>>),
                        Arr(<<TcLegacy("gablorken", RawV("object", ArgObject))>>)},
                rs \in {Absent, Str("This is a legacy response.")},
                us \in WireUsages}
        \cup {ResultObj(ch, tc, rs, us) :
                ch \in {Absent, Null}, tc \in WireToolCalls,
                rs \in WireResponses, us \in WireUsages}

Bodies ==
    {[valid |-> FALSE, doc |-> Null],
     [valid |-> FALSE,
      doc |-> Obj([success |-> Bool(TRUE),
                   result |-> Obj([response |-> Str("This is a legacy response.")])])]}
        \cup {[valid |-> TRUE,
               doc |-> Obj([success |-> Bool(TRUE), errors |-> Arr(<<>>),
                            messages |-> Arr(<<>>), result |-> r])] :
                r \in WireResults}
        \cup {[valid |-> TRUE,
               doc |-> Obj([success |-> s, errors |-> Arr(<<Str("model error")>>),
                            result |-> Absent])] :
                s \in {Bool(FALSE), Str("yes")}}
        \cup {[valid |-> TRUE,
               doc |-> Obj([success |-> Bool(FALSE),
                            errors |-> Arr(<<Str("model error")>>),
                            result |-> Obj([response |-> Str("This is a legacy response.")])])]}

StatusOK == 200

Statuses == {StatusOK, 500}

\* What the transport does with the request: an answer arrives and is read,
\* c.HTTPClient.Do fails, or reading the body fails.
Transports == {"ok", "do error", "read error"}

\* Mutant: every status is taken as a success.
StatusAccepted_Always(st) == TRUE

\* The status check: anything but 200 is an API error.
StatusAccepted(st) == st = StatusOK

\* Mutant: a non-200 answer makes the call send the request once more.
DoCalls_RetryOnStatus(t, st) == IF t = "ok" /\ st # StatusOK THEN 2 ELSE 1

\* The calls of c.HTTPClient.Do made by one ChatWithTools: the one at its
\* only call site, on every path.
DoCalls(t, st) == 1

\* The calls of json.Unmarshal(body, &response) made by one ChatWithTools:
\* one when the body was read and the status accepted, none on the paths
\* that return before it.
UnmarshalCalls(t, st) == IF t = "ok" /\ StatusAccepted(st) THEN 1 ELSE 0

(***************************************************************************)
(* Client.ChatWithTools: one HTTP exchange, then the decoding of the body   *)
(* into a fresh ChatResponse.  The server's answer (status st, body b) is   *)
(* the input.                                                               *)
(***************************************************************************)
ErrStatus == "API returned status"
ErrParse == "failed to parse ChatResponse"
ErrDo == "failed to make request"
ErrRead == "failed to read response"

NoBody == [valid |-> FALSE, doc |-> Null]

\* A `temp` that no call has written yet.
NoTemp == [k |-> "unset"]

\* The model parameters a caller has in hand: none (nil), or a
\* *ModelParameters as the client tests build it.  Numbers with a fraction
\* are kept as their text.
NilParams == <<>>

CallerParams ==
    {NilParams,
     <<[Temperature |-> "0.23", TopP |-> "0.2", TopK |-> 2, MaxTokens |-> 10]>>}

Init ==
    /\ pc = "idle"
    /\ body = [valid |-> FALSE, doc |-> Null]
    /\ status = 0
    /\ response = ZeroChatResponse
    /\ branch = "None"
    /\ retResp = FALSE
    /\ retErr = ErrNil
    /\ io = "ok"
    /\ nDo = 0
    /\ nUnmarshal = 0
    /\ rpc = "idle"
    /\ origin = "none"
    /\ request = ZeroChatCompletionRequest
    /\ reqBody = [valid |-> FALSE, doc |-> Null]
    /\ req = ZeroChatCompletionRequest
    /\ reqErr = ErrNil
    /\ params = NilParams
    /\ target = ZeroChatResponse
    /\ lastData = [valid |-> FALSE, doc |-> Null]
    /\ nDecodes = 0
    /\ targetErr = ErrNil
    /\ cpc = [c \in Callers |-> "idle"]
    /\ cop = [c \in Callers |-> "none"]
    /\ cinput = [c \in Callers |-> NoBody]
    /\ cvalue = [c \in Callers |-> NoBody]
    /\ cerr = [c \in Callers |-> ErrNil]
    /\ tempMem = [c \in Callers |-> NoTemp]
    /\ vpc = "idle"
    /\ vBase = NoBody
    /\ vHow = [order |-> "as sent", extra |-> "none"]
    /\ vWire = Null
    /\ vOut = [cr |-> ZeroChatResponse, err |-> ErrNil, branch |-> "None"]

ChatWithTools ==
    /\ pc = "idle"
    /\ \E b \in Bodies, st \in Statuses, t \in Transports :
        /\ (t # "ok" => b = NoBody)
        /\ (t = "do error" => st = StatusOK)
        /\ UNCHANGED nonRespVars
        /\ pc' = "done"
        /\ io' = t
        /\ body' = b
        /\ status' = IF t = "do error" THEN 0 ELSE st
        /\ nDo' = DoCalls(t, st)
        /\ nUnmarshal' = UnmarshalCalls(t, st)
        /\ IF t # "ok"
           THEN /\ response' = ZeroChatResponse
                /\ branch' = "None"
                /\ retResp' = FALSE
                /\ retErr' = IF t = "do error" THEN ErrDo ELSE ErrRead
           ELSE IF ~StatusAccepted(st)
           THEN /\ response' = ZeroChatResponse
                /\ branch' = "None"
                /\ retResp' = FALSE
                /\ retErr' = ErrStatus
           ELSE LET u == UnmarshalJSON(ZeroChatResponse, b) IN
                /\ response' = u.cr
                /\ branch' = u.branch
                /\ retResp' = (u.err = ErrNil)
                /\ retErr' = IF u.err = ErrNil THEN ErrNil ELSE ErrParse

\* The caller is done with the result; the next call starts from scratch.
Return ==
    /\ pc = "done"
    /\ UNCHANGED nonRespVars
    /\ pc' = "idle"
    /\ io' = "ok"
    /\ nDo' = 0
    /\ nUnmarshal' = 0
    /\ body' = [valid |-> FALSE, doc |-> Null]
    /\ status' = 0
    /\ response' = ZeroChatResponse
    /\ branch' = "None"
    /\ retResp' = FALSE
    /\ retErr' = ErrNil

Next ==
    \/ ChatWithTools
    \/ Return

Spec == Init /\ [][Next]_vars

(***************************************************************************)
(* The request on its way to the server: ChatWithTools builds and marshals  *)
(* it, the receiving side (the server of the client tests) decodes the      *)
(* body into a fresh ChatCompletionRequest.  A body may also come from      *)
(* elsewhere (a stored or transmitted request).                             *)
(***************************************************************************)
MaxMessages == 2    \* longest message list

ModelID == "test-model"

ArgLocation == <<"{", "\"location\"", ":", "\"Eindhoven\"", "}">>

ReqToolCall ==
    [ID |-> "tool-123", Type |-> "function",
     Function |-> [Name |-> "get_weather", Arguments |-> ArgLocation]]

WeatherTool ==
    [Type |-> "function",
     Function |-> [Name |-> "get_weather",
                   Description |-> "Get the current weather in a given location"]]

\* The message values a caller can build from the exported types.
ReqMessages ==
    {Msg("ChatMessage", [Role |-> r, Content |-> c, ToolCalls |-> t]) :
        r \in {"system", "user", "assistant"}, c \in {"", "Hello"},
        t \in {<<>>, <<ReqToolCall>>}}
    \cup {Msg("ChatMessage", [Role |-> "developer", Content |-> "Hello",
                               ToolCalls |-> <<>>])}
    \cup {Msg("ToolMessage", [Role |-> "tool", Content |-> c,
                               ToolCallID |-> "tool-123"]) :
            c \in {"", "72F", InvalidUTF8}}
    \cup {Msg("ResponseMessage", [Role |-> "assistant", Content |-> c,
                                   ToolCalls |-> t, ReasoningContent |-> rc]) :
            c \in {<<>>, <<"Hello">>}, t \in {<<>>, <<ReqToolCall>>},
            rc \in {"", "thinking"}}

ReqToolLists == {<<>>, <<WeatherTool>>}

\* Message objects of a request body that did not come from json.Marshal.
WireReqMessages ==
    {Obj([role |-> r, content |-> Str("Hello")]) :
        r \in {Str("user"), Str("system"), Str("assistant"), Str("developer"),
               Str(""), Absent, Null, Num(3)}}
    \cup {Obj([role |-> Str("assistant"), content |-> c, tool_calls |-> t]) :
            c \in {Absent, Str("Hello")},
            t \in {Arr(<<>>), Arr(<<EncToolCall(ReqToolCall)>>), Str("oops")}}
    \cup {Obj([role |-> Str("tool"), tool_call_id |-> Str("tool-123"),
               content |-> Str("72F")]),
          Obj([role |-> Str("user"), content |-> Num(5)]),
          Null, Num(5)}

ReqBodyOf(msgs) ==
    [valid |-> TRUE, doc |-> Obj([model |-> Str(ModelID), messages |-> msgs])]

WireRequests ==
    {[valid |-> FALSE, doc |-> Null], [valid |-> TRUE, doc |-> Null],
     [valid |-> TRUE, doc |-> Num(5)],
     [valid |-> TRUE,
      doc |-> Obj([model |-> Num(5),
                   messages |-> Arr(<<Obj([role |-> Str("developer")])>>)])]}
    \cup {ReqBodyOf(m) : m \in {Absent, Null, Str("oops")}}
    \cup {ReqBodyOf(Arr(a)) : a \in SeqsUpTo(WireReqMessages, MaxMessages)}

\* ChatWithTools up to json.Marshal(request).  The function has no argument
\* for model parameters and the request no field: what the caller has in
\* hand (mp) does not reach the request.
MarshalRequest ==
    /\ rpc = "idle"
    /\ UNCHANGED nonReqVars
    /\ \E ms \in SeqsUpTo(ReqMessages, MaxMessages), tools \in ReqToolLists,
          mp \in CallerParams :
        LET built == [Model |-> ModelID, Messages |-> ms, Tools |-> tools,
                      Stream |-> FALSE]
        IN /\ rpc' = "ready"
           /\ origin' = "marshal"
           /\ params' = mp
           /\ request' = built
           /\ reqBody' = [valid |-> TRUE, doc |-> EncChatCompletionRequest(built)]
           /\ UNCHANGED <<req, reqErr>>

\* A request body that was not produced by this client arrives.
ReceiveRequest ==
    /\ rpc = "idle"
    /\ UNCHANGED nonReqVars
    /\ \E b \in WireRequests :
        /\ rpc' = "ready"
        /\ origin' = "wire"
        /\ reqBody' = b
        /\ UNCHANGED <<request, req, reqErr, params>>

\* json.Unmarshal(b, req) with req := &ChatCompletionRequest{}.
UnmarshalRequest ==
    /\ rpc = "ready"
    /\ UNCHANGED nonReqVars
    /\ LET u == RequestUnmarshalJSON(ZeroChatCompletionRequest, reqBody)
       IN /\ rpc' = "decoded"
          /\ req' = u.r
          /\ reqErr' = u.err
          /\ UNCHANGED <<origin, request, reqBody, params>>

\* The receiving side is done with the request.
DoneRequest ==
    /\ rpc = "decoded"
    /\ UNCHANGED nonReqVars
    /\ rpc' = "idle"
    /\ origin' = "none"
    /\ request' = ZeroChatCompletionRequest
    /\ reqBody' = [valid |-> FALSE, doc |-> Null]
    /\ req' = ZeroChatCompletionRequest
    /\ reqErr' = ErrNil
    /\ params' = NilParams

NextRequest ==
    \/ MarshalRequest
    \/ ReceiveRequest
    \/ UnmarshalRequest
    \/ DoneRequest

SpecRequest == Init /\ [][NextRequest]_vars

(***************************************************************************)
(* The wire payload of the call, for stating what the decoder must do with  *)
(* it.                                                                      *)
(***************************************************************************)
WResult == Get(body.doc, "result")
WChoices == Get(WResult, "choices")
WToolCalls == Get(WResult, "tool_calls")
WResponse == Get(WResult, "response")
WUsage == Get(WResult, "usage")

HasKey(v) == v.k # "absent"
NoChoices == WChoices.k \in {"absent", "null"}
IntOf(v) == IF v.k = "number" THEN v.n ELSE 0
TextOf(v) == IF v.k = "string" /\ "s" \in DOMAIN v THEN v.s ELSE ""

WUsageValue ==
    [PromptTokens |-> IntOf(Get(WUsage, "prompt_tokens")),
     CompletionTokens |-> IntOf(Get(WUsage, "completion_tokens")),
     TotalTokens |-> IntOf(Get(WUsage, "total_tokens"))]

\* UnmarshalJSON ran on the body and got past the shell parse.
Decoded ==
    /\ pc = "done"
    /\ io = "ok"
    /\ status = StatusOK
    /\ body.valid
    /\ Get(body.doc, "success").k \in {"absent", "null", "bool"}

DecodedOK == Decoded /\ retErr = ErrNil

\* A `result` object reached the classification step.
ReachedClassification == Decoded /\ WResult.k = "object"

IsEmptyObject(v) ==
    v.k = "object" /\ \A key \in DOMAIN v.o : v.o[key].k = "absent"

FirstHasID ==
    /\ WToolCalls.k = "array"
    /\ Len(WToolCalls.a) > 0
    /\ Get(WToolCalls.a[1], "id").k = "string"
    /\ Get(WToolCalls.a[1], "id").s # ""

(***************************************************************************)
(* C1.  Classification is total and mutually exclusive, and `choices` wins. *)
(***************************************************************************)
\* C1 as stated: whenever the `choices` key is present in a result object
\* that reaches classification, the payload is classified Standard.
C1_ChoicesKeyPresentIsStandard ==
    (ReachedClassification /\ HasKey(WChoices)) =>
        (branch = "Standard" /\ ~response.IsLegacyResult)

\* C1 amended: every result object that reaches classification is put in
\* exactly one of Standard, Hybrid, Legacy, the flag IsLegacyResult is set iff
\* it is Legacy, and whenever `choices` is present with a value other than
\* JSON null (an empty array too, and also when tool_calls with ids is
\* present) it is Standard: the result is decoded into ChatCompletionResponse
\* (one choice per wire choice) and nothing is decoded into LegacyResponse.
C1_ChoicesNonNullIsStandard ==
    ReachedClassification =>
        /\ branch \in {"Standard", "Hybrid", "Legacy"}
        /\ (response.IsLegacyResult <=> branch = "Legacy")
        /\ (WChoices.k \notin {"absent", "null"} =>
                /\ branch = "Standard"
                /\ ~response.IsLegacyResult
                /\ response.LegacyResponse = ZeroLegacyResponse
                /\ (WChoices.k = "array" =>
                        Len(response.ChatCompletionResponse.Choices) = Len(WChoices.a)))

\* An empty `choices` array next to tool_calls that carry ids: Standard.
C1_Witness ==
    /\ ReachedClassification
    /\ WChoices = Arr(<<>>)
    /\ FirstHasID
    /\ branch = "Standard"
    /\ retResp

(***************************************************************************)
(* C2.  The Hybrid shape.                                                   *)
(***************************************************************************)
\* The wire tool call e, decoded field by field into the ToolCall shape.
WToolCall(e) ==
    [ID |-> TextOf(Get(e, "id")),
     Type |-> TextOf(Get(e, "type")),
     Function |->
        [Name |-> TextOf(Get(Get(e, "function"), "name")),
         Arguments |-> IF Get(Get(e, "function"), "arguments").k = "string"
                       THEN Get(Get(e, "function"), "arguments").t
                       ELSE <<>>]]

\* C2: a result without `choices` whose tool_calls is non-empty and whose
\* first element has a non-empty id is classified Hybrid (IsLegacyResult
\* false); when the decode succeeds, ChatCompletionResponse holds exactly one
\* choice, with role "assistant", no content, the wire tool calls in wire
\* order and the wire usage, and GetToolCalls()[0].ID is the wire id.
C2_Hybrid ==
    (ReachedClassification /\ NoChoices /\ FirstHasID) =>
        /\ branch = "Hybrid"
        /\ ~response.IsLegacyResult
        /\ (retErr = ErrNil =>
            LET ccr == response.ChatCompletionResponse IN
            /\ Len(ccr.Choices) = 1
            /\ ccr.Choices[1].Message.Role = "assistant"
            /\ ccr.Choices[1].Message.Content = <<>>
            /\ Len(ccr.Choices[1].Message.ToolCalls) = Len(WToolCalls.a)
            /\ \A i \in 1..Len(WToolCalls.a) :
                    ccr.Choices[1].Message.ToolCalls[i] = WToolCall(WToolCalls.a[i])
            /\ ccr.Usage = WUsageValue
            /\ GetToolCalls(response)[1].ID = Get(WToolCalls.a[1], "id").s)

\* A hybrid payload with two tool calls and usage, decoded and returned.
C2_Witness ==
    /\ ReachedClassification /\ NoChoices /\ FirstHasID
    /\ Len(WToolCalls.a) = 2
    /\ HasKey(WUsage)
    /\ retResp
    /\ GetToolCalls(response)[1].ID = "call_abc"

(***************************************************************************)
(* C3.  The empty-result guard.                                             *)
(***************************************************************************)
\* C3: when `result` is absent or is the empty object, decode succeeds with
\* format Legacy (IsLegacyResult true), an empty Legacy payload and empty
\* content.
C3_EmptyResultIsLegacy ==
    (Decoded /\ (WResult.k = "absent" \/ IsEmptyObject(WResult))) =>
        /\ retErr = ErrNil
        /\ response.IsLegacyResult
        /\ response.LegacyResponse = ZeroLegacyResponse
        /\ GetContent(response) = ""

(***************************************************************************)
(* C4.  A Legacy `response` that is JSON null.                              *)
(***************************************************************************)
\* The result is an object that the rules send to the Legacy branch.
LegacyShaped == ReachedClassification /\ NoChoices /\ ~FirstHasID

\* C4: when a Legacy result carries `response: null`, decode succeeds with
\* format Legacy and the decoded response text, and so GetContent(), is the
\* four-character text "null".
C4_NullResponseIsTextNull ==
    (LegacyShaped /\ WToolCalls.k \in {"absent", "null", "array"}
        /\ WResponse.k = "null") =>
        /\ retErr = ErrNil
        /\ response.IsLegacyResult
        /\ response.LegacyResponse.Response = "null"
        /\ GetContent(response) = "null"

(***************************************************************************)
(* C5.  GetContent for Standard and Hybrid.                                 *)
(***************************************************************************)
WHasFirstChoice == WChoices.k = "array" /\ Len(WChoices.a) > 0
WFirstMessage == Get(WChoices.a[1], "message")

NoModernToolCalls ==
    \/ WToolCalls.k = "absent"
    \/ /\ WToolCalls.k = "array"
       /\ (Len(WToolCalls.a) = 0 \/ Get(WToolCalls.a[1], "id").k = "absent")

\* C6: a result without `choices` whose tool_calls is absent, empty, or has a
\* first element without an id is classified Legacy (IsLegacyResult true);
\* when the decode succeeds the result is decoded into LegacyResponse (its
\* tool calls and usage are the wire's, ChatCompletionResponse is untouched)
\* and GetContent() is the wire `response` text, empty when it is absent.
C6_LegacyDefault ==
    (ReachedClassification /\ NoChoices /\ NoModernToolCalls) =>
        /\ branch = "Legacy"
        /\ response.IsLegacyResult
        /\ (retErr = ErrNil =>
                /\ Len(response.LegacyResponse.ToolCalls) =
                        (IF WToolCalls.k = "array" THEN Len(WToolCalls.a) ELSE 0)
                /\ response.LegacyResponse.Usage = WUsageValue
                /\ response.ChatCompletionResponse = ZeroChatCompletionResponse
                /\ (WResponse.k \in {"absent", "string"} =>
                        GetContent(response) = TextOf(WResponse)))

\* A legacy text response with an id-less tool call, decoded and returned.
C6_Witness ==
    /\ ReachedClassification /\ NoChoices
    /\ WToolCalls.k = "array" /\ Len(WToolCalls.a) > 0
    /\ Get(WToolCalls.a[1], "id").k = "absent"
    /\ WResponse.k = "string"
    /\ GetContent(response) = "This is a legacy response."
    /\ response.IsLegacyResult
    /\ retResp

(***************************************************************************)
(* C7.  The ids synthesized for legacy tool calls.                          *)
(***************************************************************************)
ExpectedLegacyID(i) ==
    CASE i = 0 -> "legacy-tool-call-0"
      [] i = 1 -> "legacy-tool-call-1"
      [] i = 2 -> "legacy-tool-call-2"
      [] i = 3 -> "legacy-tool-call-3"
      [] OTHER -> "legacy-tool-call-" \o ToString(i)

LegacyDecodedCalls == LegacyShaped /\ WToolCalls.k = "array" /\ retErr = ErrNil

\* C7: for a Legacy response with n tool calls, GetToolCalls() returns n
\* calls in wire order; the call at 0-based position i has ID
\* "legacy-tool-call-<i>", Type "function" and the i-th wire name.
C7_LegacyToolCallIDs ==
    LegacyDecodedCalls =>
        /\ Len(GetToolCalls(response)) = Len(WToolCalls.a)
        /\ \A p \in 1..Len(WToolCalls.a) :
            /\ GetToolCalls(response)[p].ID = ExpectedLegacyID(p - 1)
            /\ GetToolCalls(response)[p].Type = "function"
            /\ GetToolCalls(response)[p].Function.Name =
                    TextOf(Get(WToolCalls.a[p], "name"))

\* Two legacy tool calls: the second one is "legacy-tool-call-1".
C7_Witness ==
    /\ LegacyDecodedCalls
    /\ Len(WToolCalls.a) = 2
    /\ GetToolCalls(response)[2].ID = "legacy-tool-call-1"
    /\ GetToolCalls(response)[2].Function.Name = "gablorken"
    /\ retResp

(***************************************************************************)
(* C8.  Legacy arguments given as a JSON object.                            *)
(***************************************************************************)
JSONEqual(a, b) == Compact(a) = Compact(b)

WArguments(p) == Get(WToolCalls.a[p], "arguments")

\* C8 as stated: for a legacy tool call whose wire arguments is a JSON
\* object, the Arguments string is that object in compact form (no
\* insignificant whitespace) and is JSON-equal to the wire object.
C8_ArgumentsCompact ==
    LegacyDecodedCalls =>
        \A p \in 1..Len(WToolCalls.a) :
            WArguments(p).k = "object" =>
                /\ GetToolCalls(response)[p].Function.Arguments =
                        Compact(WArguments(p).t)
                /\ JSONEqual(GetToolCalls(response)[p].Function.Arguments,
                             WArguments(p).t)

\* C8 amended: for a legacy tool call whose wire arguments is a JSON object,
\* the Arguments string is the wire text of that object exactly as received
\* (its insignificant whitespace kept), and so is JSON-equal to it.
C8_ArgumentsVerbatim ==
    LegacyDecodedCalls =>
        \A p \in 1..Len(WToolCalls.a) :
            WArguments(p).k = "object" =>
                /\ GetToolCalls(response)[p].Function.Arguments = WArguments(p).t
                /\ JSONEqual(GetToolCalls(response)[p].Function.Arguments,
                             WArguments(p).t)

\* A legacy tool call whose object arguments came with whitespace.
C8_Witness ==
    /\ LegacyDecodedCalls
    /\ Len(WToolCalls.a) > 0
    /\ WArguments(1) = RawV("object", ArgObjectSpaced)
    /\ GetToolCalls(response)[1].Function.Arguments = ArgObjectSpaced
    /\ retResp

(***************************************************************************)
(* C9.  Arguments is always a serialized JSON object.                       *)
(***************************************************************************)
\* C9: for every decoded response of any format, every tool call returned by
\* GetToolCalls() has Arguments holding one serialized JSON object, also when
\* the Legacy wire arguments was a scalar, a JSON string, or missing.
C9_ArgumentsAlwaysObject ==
    DecodedOK =>
        \A p \in 1..Len(GetToolCalls(response)) :
            IsJSONObjectText(GetToolCalls(response)[p].Function.Arguments)

(***************************************************************************)
(* C10.  GetReasoningContent.                                               *)
(***************************************************************************)
\* C10: GetReasoningContent() is the first choice's reasoning_content for a
\* Standard or Hybrid response (empty when there is none, as in the choice
\* synthesized for Hybrid), and the empty string for every Legacy response.
C10_ReasoningContent ==
    DecodedOK =>
        GetReasoningContent(response) =
            IF branch = "Standard" /\ WHasFirstChoice
            THEN TextOf(Get(WFirstMessage, "reasoning_content"))
            ELSE ""

\* A Standard response with two choices, the first with a reasoning text and
\* the second without.
C10_Witness ==
    /\ DecodedOK /\ branch = "Standard"
    /\ WChoices.k = "array" /\ Len(WChoices.a) = 2
    /\ Get(WFirstMessage, "reasoning_content") = Str("thinking")
    /\ Get(Get(WChoices.a[2], "message"), "reasoning_content").k = "absent"
    /\ GetReasoningContent(response) = "thinking"
    /\ retResp

(***************************************************************************)
(* C11.  The two payloads of a decoded response.                            *)
(***************************************************************************)
\* C11 as stated: after every successful decode exactly one of the two
\* payloads is populated and the other is empty, and IsLegacyResult says
\* which one is populated.
C11_ExactlyOnePopulated ==
    DecodedOK =>
        IF response.IsLegacyResult
        THEN /\ response.LegacyResponse # ZeroLegacyResponse
             /\ response.ChatCompletionResponse = ZeroChatCompletionResponse
        ELSE /\ response.ChatCompletionResponse # ZeroChatCompletionResponse
             /\ response.LegacyResponse = ZeroLegacyResponse

\* C11 amended: after every successful decode at most one of the two payloads
\* is populated: the payload IsLegacyResult does not select is empty.  The
\* flag is true exactly for a result classified Legacy, and a Hybrid result
\* always populates ChatCompletionResponse (one choice).  The selected payload
\* is itself empty when the result carries nothing for it (result absent,
\* `{}`, or `choices: []` without usage).
C11_UnselectedPayloadEmpty ==
    DecodedOK =>
        /\ (response.IsLegacyResult =>
                response.ChatCompletionResponse = ZeroChatCompletionResponse)
        /\ (~response.IsLegacyResult =>
                response.LegacyResponse = ZeroLegacyResponse)
        /\ (response.IsLegacyResult <=> branch = "Legacy")
        /\ (branch = "Hybrid" =>
                response.ChatCompletionResponse # ZeroChatCompletionResponse)

\* A result with `choices`, a legacy `response` text and usage, decoded as
\* Standard: only ChatCompletionResponse is populated.
C11_Witness ==
    /\ DecodedOK /\ branch = "Standard"
    /\ WResponse.k = "string"
    /\ WChoices.k = "array" /\ Len(WChoices.a) > 0
    /\ ~response.IsLegacyResult
    /\ response.ChatCompletionResponse # ZeroChatCompletionResponse
    /\ response.LegacyResponse = ZeroLegacyResponse
    /\ retResp

(***************************************************************************)
(* C12.  GetToolCalls for Standard and Hybrid.                              *)
(***************************************************************************)
\* The tool calls the wire holds for a modern response: those of the first
\* choice's message (Standard), or the result's own (Hybrid).
WModernToolCalls ==
    IF branch = "Hybrid" THEN WToolCalls
    ELSE IF WHasFirstChoice THEN Get(WFirstMessage, "tool_calls")
    ELSE Absent

\* C12: for a Standard or Hybrid response GetToolCalls() returns the tool
\* calls of the first choice as they are on the wire: same count, same order,
\* same id, type, function name and arguments string; none when there is no
\* choice or the first choice has no tool calls.
C12_ModernToolCalls ==
    (DecodedOK /\ branch \in {"Standard", "Hybrid"}) =>
        /\ Len(GetToolCalls(response)) = Len(Elems(WModernToolCalls))
        /\ \A i \in 1..Len(Elems(WModernToolCalls)) :
                GetToolCalls(response)[i] = WToolCall(Elems(WModernToolCalls)[i])

\* A Standard response with two choices: the first has two tool calls, the
\* second has none.
C12_Witness ==
    /\ DecodedOK /\ branch = "Standard"
    /\ WChoices.k = "array" /\ Len(WChoices.a) = 2
    /\ Len(Elems(Get(WFirstMessage, "tool_calls"))) = 2
    /\ Get(Get(WChoices.a[2], "message"), "tool_calls").k = "absent"
    /\ GetToolCalls(response)[1].ID = "call_openai_123"
    /\ GetToolCalls(response)[2].ID = "call_abc"
    /\ retResp

(***************************************************************************)
(* C13.  Usage is carried through for every format.                         *)
(***************************************************************************)
\* C13: after a successful decode the usage of the selected payload equals
\* the wire result.usage (prompt, completion and total tokens) for Standard,
\* Hybrid (carried over into the synthesized response) and Legacy results,
\* and is all zeros when the wire has no usage.
C13_UsagePreserved ==
    DecodedOK =>
        /\ SelectedUsage(response) = WUsageValue
        /\ (~HasKey(WUsage) => SelectedUsage(response) = ZeroUsage)

\* A Hybrid result with usage 28 + 17 = 45: the synthesized response has it.
C13_Witness ==
    /\ DecodedOK /\ branch = "Hybrid"
    /\ HasKey(WUsage)
    /\ response.ChatCompletionResponse.Usage =
            [PromptTokens |-> 28, CompletionTokens |-> 17, TotalTokens |-> 45]
    /\ retResp

(***************************************************************************)
(* The request body and its decoding, for the claims about requests.        *)
(***************************************************************************)
WReqMessages == Elems(Get(reqBody.doc, "messages"))

\* UnmarshalJSON ran on the request body.
ReqDecoded == rpc = "decoded"
ReqDecodedOK == ReqDecoded /\ reqErr = ErrNil

KnownRoles == {"system", "user", "assistant", "tool"}

\* The role of a wire message as the decoder's switch sees it: "" when the
\* key is absent or null.
WRole(e) == TextOf(Get(e, "role"))

WHasToolCalls(e) ==
    Get(e, "tool_calls").k = "array" /\ Len(Get(e, "tool_calls").a) > 0

(***************************************************************************)
(* C14.  The variant of a decoded message follows the role-tagging rule.    *)
(***************************************************************************)
\* The variant the rule gives to the wire message e.
ExpectedVariant(e) ==
    CASE WRole(e) \in {"system", "user"} -> "ChatMessage"
      [] WRole(e) = "assistant" /\ WHasToolCalls(e) -> "ResponseMessage"
      [] WRole(e) = "assistant" /\ ~WHasToolCalls(e) -> "ChatMessage"
      [] WRole(e) = "tool" -> "ToolMessage"
      [] OTHER -> "nil"

\* C14: a successfully decoded request has as many messages as the wire
\* list, in wire order, and the concrete variant at each position is
\* determined by the wire element's role and tool_calls alone: system or
\* user gives ChatMessage, assistant with a non-empty tool_calls array gives
\* ResponseMessage, assistant without one gives ChatMessage, tool gives
\* ToolMessage.  (When the decode fails part-way, the messages already
\* decoded follow the same rule.)
C14_VariantByRole ==
    ReqDecoded =>
        /\ (reqErr = ErrNil =>
                /\ Len(req.Messages) = Len(WReqMessages)
                /\ \A i \in 1..Len(req.Messages) : req.Messages[i] # NilMessage)
        /\ \A i \in 1..Len(req.Messages) :
                req.Messages[i] # NilMessage =>
                    /\ req.Messages[i].type = ExpectedVariant(WReqMessages[i])
                    /\ req.Messages[i].val.Role = WRole(WReqMessages[i])

\* A received body [assistant with tool_calls, tool]: a ResponseMessage
\* followed by a ToolMessage.
C14_Witness ==
    /\ ReqDecodedOK /\ origin = "wire"
    /\ Len(WReqMessages) = 2
    /\ WRole(WReqMessages[1]) = "assistant" /\ WHasToolCalls(WReqMessages[1])
    /\ WRole(WReqMessages[2]) = "tool"
    /\ req.Messages[1].type = "ResponseMessage"
    /\ req.Messages[1].val.ToolCalls = <<ReqToolCall>>
    /\ req.Messages[2].type = "ToolMessage"

(***************************************************************************)
(* C15.  Unknown and missing roles.                                         *)
(***************************************************************************)
\* The wire message e has a role outside the four known ones, or none (the
\* key is absent or null, or the element itself is null).
WUnknownRole(e) ==
    /\ e.k \in {"object", "null"}
    /\ Get(e, "role").k \in {"string", "absent", "null"}
    /\ WRole(e) \notin KnownRoles

\* Every field the decoder reads from the wire message e has a JSON type its
\* target accepts.
WWellTyped(e) ==
    /\ e.k \in {"object", "null"}
    /\ Get(e, "role").k \in {"string", "absent", "null"}
    /\ Get(e, "content").k \in {"string", "absent", "null"}
    /\ Get(e, "tool_calls").k \in {"array", "absent", "null"}
    /\ Get(e, "tool_call_id").k \in {"string", "absent", "null"}

\* The request body got past the shell decode with a list of messages.
WReqShellOK ==
    /\ reqBody.valid
    /\ reqBody.doc.k = "object"
    /\ Get(reqBody.doc, "model").k \in {"string", "absent", "null"}
    /\ Get(reqBody.doc, "messages").k = "array"

WHasUnknownRole == \E i \in 1..Len(WReqMessages) : WUnknownRole(WReqMessages[i])

WFirstUnknownRole ==
    CHOOSE i \in 1..Len(WReqMessages) :
        /\ WUnknownRole(WReqMessages[i])
        /\ \A j \in 1..(i - 1) : ~WUnknownRole(WReqMessages[j])

\* C15 as stated: whenever any message of the body has a role outside
\* {system, user, assistant, tool} or has no role, the decode fails with the
\* unknown-role error, which carries the offending role value ("" when the
\* role is absent).
C15_UnknownRoleAlways ==
    (ReqDecoded /\ reqBody.valid /\ Get(reqBody.doc, "messages").k = "array"
        /\ WHasUnknownRole) =>
        \E i \in 1..Len(WReqMessages) :
            /\ WUnknownRole(WReqMessages[i])
            /\ reqErr = ErrUnknownRole(WRole(WReqMessages[i]))

\* C15 amended: whenever any message of the body has a role outside the four
\* or has no role, the decode fails.  The decoder stops at the first thing
\* it cannot decode: the error is the unknown-role error carrying the role
\* of the first such message ("" when absent) provided the shell and every
\* earlier message are well typed, and then the messages before it are
\* decoded and the rest of the list is left nil; otherwise the error is the
\* one of the earlier failure.
C15_UnknownRoleFirstFailure ==
    (ReqDecoded /\ reqBody.valid /\ Get(reqBody.doc, "messages").k = "array"
        /\ WHasUnknownRole) =>
        /\ reqErr # ErrNil
        /\ ((WReqShellOK
                /\ \A j \in 1..(WFirstUnknownRole - 1) : WWellTyped(WReqMessages[j])) =>
                /\ reqErr = ErrUnknownRole(WRole(WReqMessages[WFirstUnknownRole]))
                /\ \A i \in 1..Len(req.Messages) :
                        (req.Messages[i] = NilMessage) <=> (i >= WFirstUnknownRole))

\* [user, developer]: the error names "developer"; the user message was
\* decoded, the second position was not.
C15_Witness ==
    /\ ReqDecoded /\ WReqShellOK
    /\ Len(WReqMessages) = 2
    /\ WRole(WReqMessages[1]) = "user"
    /\ WRole(WReqMessages[2]) = "developer"
    /\ reqErr = "unknown message role found: developer"
    /\ req.Messages[1].type = "ChatMessage"
    /\ req.Messages[2] = NilMessage

(***************************************************************************)
(* C16.  Encoding a request and decoding it back.                           *)
(***************************************************************************)
\* C16 as stated: for every list of Message variants, decoding the encoded
\* request gives back the same list: same variant and same field values at
\* each position.
C16_RoundTripAll ==
    (ReqDecoded /\ origin = "marshal") =>
        /\ reqErr = ErrNil
        /\ req.Messages = request.Messages

\* The message is the variant the role-tagging rule gives to its own role and
\* tool calls.
FollowsRoleTagging(msg) ==
    \/ msg.type = "ChatMessage" /\ msg.val.Role \in {"system", "user"}
    \/ msg.type = "ChatMessage" /\ msg.val.Role = "assistant"
            /\ msg.val.ToolCalls = <<>>
    \/ msg.type = "ResponseMessage" /\ msg.val.Role = "assistant"
            /\ msg.val.ToolCalls # <<>>
    \/ msg.type = "ToolMessage" /\ msg.val.Role = "tool"

ValidUTF8(msg) == msg.val.Content # InvalidUTF8

\* C16 amended: the round trip is lossless for every list whose messages
\* follow the role-tagging rule (ChatMessage with role system or user, or
\* assistant without tool calls; ResponseMessage with role assistant and
\* tool calls; ToolMessage with role tool) and whose strings are valid
\* UTF-8: the decode succeeds and the decoded request equals the original,
\* message by message, variant and fields.  For any other list the decoded
\* messages differ from the original ones (a changed variant, a replaced
\* byte, or a failed decode).
C16_RoundTripTagged ==
    (ReqDecoded /\ origin = "marshal") =>
        IF \A i \in 1..Len(request.Messages) :
                FollowsRoleTagging(request.Messages[i])
                    /\ ValidUTF8(request.Messages[i])
        THEN reqErr = ErrNil /\ req = request
        ELSE req.Messages # request.Messages

\* An assistant tool-call turn and the tool's answer, sent with a tool
\* definition, come back as they were.
C16_Witness ==
    /\ ReqDecodedOK /\ origin = "marshal"
    /\ Len(request.Messages) = 2
    /\ request.Messages[1].type = "ResponseMessage"
    /\ request.Messages[1].val.ToolCalls = <<ReqToolCall>>
    /\ request.Messages[1].val.ReasoningContent = "thinking"
    /\ request.Messages[2].type = "ToolMessage"
    /\ request.Messages[2].val.Content = "72F"
    /\ request.Tools = <<WeatherTool>>
    /\ req = request

(***************************************************************************)
(* C17.  The encoded assistant tool-call turn.                              *)
(***************************************************************************)
\* A request marshalled by ChatWithTools exists.
ReqMarshalled == rpc \in {"ready", "decoded"} /\ origin = "marshal"

\* C17: in a marshalled request, the object of every ResponseMessage with
\* non-empty tool calls has no `content` key at all, not even a null one.
C17_NoContentKey ==
    ReqMarshalled =>
        \A i \in 1..Len(request.Messages) :
            (request.Messages[i].type = "ResponseMessage"
                /\ request.Messages[i].val.ToolCalls # <<>>) =>
                Get(WReqMessages[i], "content").k = "absent"

(***************************************************************************)
(* C18.  Exactly one of content and tool_calls per assistant message.       *)
(***************************************************************************)
WContentPopulated(e) ==
    Get(e, "content").k = "string" /\ Get(e, "content").s # ""

\* C18: in a marshalled request, every message object with role "assistant"
\* has exactly one of `content` and `tool_calls` populated, whatever message
\* values the caller passed.
C18_ExactlyOneOfContentToolCalls ==
    ReqMarshalled =>
        \A i \in 1..Len(WReqMessages) :
            WRole(WReqMessages[i]) = "assistant" =>
                (WContentPopulated(WReqMessages[i]) <=> ~WHasToolCalls(WReqMessages[i]))

(***************************************************************************)
(* C19.  A body that is not valid JSON.                                     *)
(***************************************************************************)
\* C19: when the body of a 200 response is not valid JSON, the decode into
\* ChatResponse fails: ChatWithTools returns an error and no response, no
\* classification branch was taken, and the target reports no format (the
\* flag is unset and both payloads are empty).
C19_MalformedTopLevel ==
    (pc = "done" /\ io = "ok" /\ status = StatusOK /\ ~body.valid) =>
        /\ retErr # ErrNil
        /\ ~retResp
        /\ branch = "None"
        /\ ~response.IsLegacyResult
        /\ response.ChatCompletionResponse = ZeroChatCompletionResponse
        /\ response.LegacyResponse = ZeroLegacyResponse

\* A truncated body that starts like a legacy response: the call failed.
C19_Witness ==
    /\ pc = "done" /\ io = "ok" /\ status = StatusOK /\ ~body.valid
    /\ WResponse.k = "string"
    /\ retErr = ErrParse
    /\ ~retResp

(***************************************************************************)
(* C20.  A legacy `response` that is a JSON object.                         *)
(***************************************************************************)
\* C20: a Legacy result whose `response` is a JSON object decodes without
\* error, and the decoded response text is the raw JSON text of the object
\* as it appeared on the wire.
C20_ObjectResponseIsRawText ==
    (LegacyShaped /\ WResponse.k = "object"
        /\ WToolCalls.k \in {"absent", "null", "array"}) =>
        /\ retErr = ErrNil
        /\ retResp
        /\ response.IsLegacyResult
        /\ GetContent(response) = Join(WResponse.t)

(***************************************************************************)
(* C21.  No backtracking once a branch is chosen.                           *)
(***************************************************************************)
\* The first element of tool_calls carries an `id` key that is either a
\* non-empty string or a value of another JSON type.
FirstCarriesID ==
    /\ WToolCalls.k = "array"
    /\ Len(WToolCalls.a) > 0
    /\ Get(WToolCalls.a[1], "id").k \notin {"absent", "null"}
    /\ Get(WToolCalls.a[1], "id") # Str("")

\* Some tool call of the list has an `id` that is not a string.
SomeIDWronglyTyped ==
    /\ WToolCalls.k = "array"
    /\ \E i \in 1..Len(WToolCalls.a) :
            Get(WToolCalls.a[i], "id").k \notin {"absent", "null", "string"}

\* C21: the branch is chosen from the shape of the result and a wrongly
\* typed field never changes it: a result without `choices` whose first tool
\* call carries an id is Hybrid also when an id is not a string, and the
\* wrongly typed id then surfaces as a decode error of that shape; a
\* wrongly typed `choices` stays Standard and fails there.
C21_NoReclassification ==
    ReachedClassification =>
        /\ ((NoChoices /\ FirstCarriesID) =>
                /\ branch = "Hybrid"
                /\ (SomeIDWronglyTyped => retErr # ErrNil))
        /\ (WChoices.k \notin {"absent", "null", "array"} =>
                branch = "Standard" /\ retErr # ErrNil)

(***************************************************************************)
(* C26.  Only the first tool call discriminates Hybrid from Legacy.         *)
(***************************************************************************)
\* The first element of tool_calls has no id: no key, or an empty string.
FirstLacksID ==
    /\ WToolCalls.k = "array"
    /\ Len(WToolCalls.a) > 0
    /\ Get(WToolCalls.a[1], "id") \in {Absent, Str("")}

\* C26: with `choices` absent, a tool_calls list whose first element has a
\* non-empty id is Hybrid whatever the later elements hold, and a list whose
\* first element lacks an id is Legacy even if later elements carry ids.
C26_FirstElementDecides ==
    (ReachedClassification /\ NoChoices) =>
        /\ (FirstHasID => branch = "Hybrid" /\ ~response.IsLegacyResult)
        /\ (FirstLacksID => branch = "Legacy" /\ response.IsLegacyResult)

\* A list of two: the first element without an id, the second with one.
C26_Witness ==
    /\ ReachedClassification /\ NoChoices /\ FirstLacksID
    /\ Len(WToolCalls.a) = 2
    /\ Get(WToolCalls.a[2], "id") = Str("call_abc")
    /\ branch = "Legacy"
    /\ response.IsLegacyResult

(***************************************************************************)
(* C30.  `choices: null`.                                                   *)
(***************************************************************************)
\* C30: a result whose `choices` key is present with the value null is
\* classified as if the key were absent: Hybrid when the first tool call has
\* a non-empty id, Legacy otherwise, never Standard.
C30_NullChoicesIsAbsent ==
    (ReachedClassification /\ WChoices.k = "null") =>
        /\ branch # "Standard"
        /\ branch = (IF IsHybrid(ResultProbe(
                            Obj([tool_calls |-> WToolCalls, response |-> WResponse,
                                 usage |-> WUsage])))
                     THEN "Hybrid" ELSE "Legacy")
        /\ (FirstHasID => branch = "Hybrid")
        /\ (~FirstCarriesID => branch = "Legacy")

\* `choices: null` next to a legacy response text: decoded as Legacy.
C30_Witness ==
    /\ ReachedClassification /\ WChoices.k = "null"
    /\ WResponse.k = "string"
    /\ branch = "Legacy"
    /\ GetContent(response) = "This is a legacy response."
    /\ retResp

C29_ResponseXorError ==
    pc = "done" =>
        /\ (retResp <=> retErr = ErrNil)
        /\ (io # "ok" => ~retResp)
        /\ (io = "ok" /\ status # StatusOK =>
                ~retResp /\ retErr = ErrStatus /\ response = ZeroChatResponse)
        /\ (Decoded /\ Get(body.doc, "success") = Bool(FALSE)
                /\ WResult.k \in {"absent", "object"}
                /\ WResponse.k \in {"absent", "string"}
                /\ WToolCalls.k = "absent" /\ WChoices.k = "absent" =>
                retResp /\ retErr = ErrNil /\ ~response.Success)

\* success: false with a legacy text, status 200: the response is returned.
C29_Witness ==
    /\ Decoded
    /\ Get(body.doc, "success") = Bool(FALSE)
    /\ WResponse.k = "string"
    /\ retResp /\ retErr = ErrNil
    /\ ~response.Success
    /\ GetContent(response) = "This is a legacy response."

(***************************************************************************)
(* C28.  A failed decode leaves the target as it was.                       *)
(***************************************************************************)
\* C28: when the decode of the body into the ChatResponse returns an error,
\* the target is exactly what it was before the call (here the zero value of
\* the fresh `var response ChatResponse`): no top-level field, flag or
\* payload has changed.
C28_ErrorLeavesTargetUnchanged ==
    (pc = "done" /\ retErr = ErrParse) => response = ZeroChatResponse

(***************************************************************************)
(* One ChatResponse value decoded into more than once: json.Unmarshal calls *)
(* UnmarshalJSON on the receiver as it is, with whatever the decodes before *)
(* left in it.                                                              *)
(***************************************************************************)
MaxDecodes == 3     \* decodes into one ChatResponse value

UsageA ==
    Obj([prompt_tokens |-> Num(28), completion_tokens |-> Num(17),
         total_tokens |-> Num(45)])

BodyOf(s, r) ==
    [valid |-> TRUE,
     doc |-> Obj([success |-> s, errors |-> Arr(<<>>), messages |-> Arr(<<>>),
                  result |-> r])]

StandardChoice(c, rc, tc) ==
    Obj([index |-> Num(0),
         message |-> Obj([role |-> Str("assistant"), content |-> c,
                          reasoning_content |-> rc, tool_calls |-> tc]),
         finish_reason |-> Str("stop")])

\* The payloads decoded into the kept value: each format with and without
\* the fields a later decode may leave behind, an error payload without
\* `result`, and two bodies whose decode fails.
ReuseBodies ==
    {BodyOf(Bool(TRUE),
            ResultObj(Arr(<<StandardChoice(Str("Hello there!"), Str("thinking"), Absent)>>),
                      Absent, Absent, UsageA)),
     BodyOf(Bool(TRUE),
            ResultObj(Arr(<<StandardChoice(Null, Absent,
                                Arr(<<TcModern(Str("call_openai_123"))>>))>>),
                      Absent, Absent, Absent)),
     BodyOf(Bool(TRUE), ResultObj(Arr(<<>>), Absent, Absent, Absent)),
     BodyOf(Bool(TRUE),
            ResultObj(Absent, Arr(<<TcModern(Str("call_abc"))>>), Absent, UsageA)),
     BodyOf(Bool(TRUE),
            ResultObj(Absent, Absent, Str("This is a legacy response."), UsageA)),
     BodyOf(Bool(TRUE),
            ResultObj(Absent,
                      Arr(<<TcLegacy("gablorken", RawV("object", ArgObject))>>),
                      Absent, Absent)),
     BodyOf(Bool(TRUE), Obj([usage |-> Absent])),
     BodyOf(Bool(FALSE), Absent),
     BodyOf(Bool(TRUE), ResultObj(Str("oops"), Absent, Absent, Absent)),
     [valid |-> FALSE, doc |-> Null]}

\* json.Unmarshal(data, &target) on the value the caller kept.
DecodeIntoTarget ==
    /\ nDecodes < MaxDecodes
    /\ targetErr = ErrNil
    /\ \E b \in ReuseBodies :
        LET u == UnmarshalJSON(target, b) IN
        /\ target' = u.cr
        /\ lastData' = b
        /\ nDecodes' = nDecodes + 1
        /\ targetErr' = u.err
    /\ UNCHANGED nonReuseVars

\* The caller drops the value and starts over with a new one.
DropTarget ==
    /\ nDecodes > 0
    /\ target' = ZeroChatResponse
    /\ lastData' = [valid |-> FALSE, doc |-> Null]
    /\ nDecodes' = 0
    /\ targetErr' = ErrNil
    /\ UNCHANGED nonReuseVars

NextReuse ==
    \/ DecodeIntoTarget
    \/ DropTarget

SpecReuse == Init /\ [][NextReuse]_vars

\* What a caller can observe of a ChatResponse.
Observed(r) ==
    [IsLegacyResult |-> r.IsLegacyResult,
     Content |-> GetContent(r),
     ReasoningContent |-> GetReasoningContent(r),
     ToolCalls |-> GetToolCalls(r),
     Usage |-> SelectedUsage(r)]

\* C27: after successful decodes into the same ChatResponse value, the format
\* flag, GetContent, GetReasoningContent, GetToolCalls and the usage are those
\* of the latest payload alone, i.e. what a decode of that payload into a
\* zero ChatResponse gives, whatever was decoded before.
C27_OnlyLatestPayloadObservable ==
    (nDecodes > 0 /\ targetErr = ErrNil)
        => Observed(target) = Observed(UnmarshalJSON(ZeroChatResponse, lastData).cr)

(***************************************************************************)
(* Several goroutines call into the package at once, each with its own      *)
(* input and its own target.  A call is taken apart into the steps between  *)
(* which another goroutine can run: a decode first fills its local `temp`,  *)
(* then moves on to its receiver.                                           *)
(***************************************************************************)
\* Mutant: `temp` is one package-level variable that all calls use.
TempSlot_Shared(c) == 1

\* Where the `temp` of caller c's call lives: `var temp` is a local of the
\* invocation, so each call has its own.
TempSlot(c) == c

ConcBodies ==
    {BodyOf(Bool(TRUE),
            ResultObj(Arr(<<StandardChoice(Str("Hello there!"), Str("thinking"), Absent)>>),
                      Absent, Absent, UsageA)),
     BodyOf(Bool(TRUE),
            ResultObj(Absent, Arr(<<TcModern(Str("call_abc"))>>), Absent, UsageA)),
     BodyOf(Bool(TRUE),
            ResultObj(Absent, Absent, Str("This is a legacy response."), UsageA)),
     BodyOf(Bool(FALSE), Absent),
     [valid |-> FALSE, doc |-> Null]}

ConcRequests ==
    {[valid |-> FALSE, doc |-> Null], [valid |-> TRUE, doc |-> Null],
     ReqBodyOf(Arr(<<Obj([role |-> Str("user"), content |-> Str("Hello")])>>)),
     ReqBodyOf(Arr(<<Obj([role |-> Str("tool"), tool_call_id |-> Str("tool-123"),
                          content |-> Str("72F")]),
                     Obj([role |-> Str("developer"), content |-> Str("Hello")])>>))}

\* The arguments (modelID, messages, tools) of a ChatWithTools call.
ConcArguments ==
    {[Model |-> ModelID, Messages |-> <<>>, Tools |-> <<>>],
     [Model |-> ModelID,
      Messages |-> <<Msg("ChatMessage", [Role |-> "user", Content |-> "Hello",
                                          ToolCalls |-> <<>>])>>,
      Tools |-> <<WeatherTool>>],
     [Model |-> ModelID,
      Messages |-> <<Msg("ChatMessage", [Role |-> "assistant", Content |-> "",
                                          ToolCalls |-> <<ReqToolCall>>]),
                     Msg("ToolMessage", [Role |-> "tool", Content |-> "72F",
                                          ToolCallID |-> "tool-123"])>>,
      Tools |-> <<>>]}

\* A goroutine calls json.Unmarshal(data, &response) with its own zero
\* ChatResponse.
StartDecode ==
    /\ \E c \in Callers, b \in ConcBodies :
        /\ cpc[c] = "idle"
        /\ cpc' = [cpc EXCEPT ![c] = "called"]
        /\ cop' = [cop EXCEPT ![c] = "decode response"]
        /\ cinput' = [cinput EXCEPT ![c] = b]
        /\ cvalue' = [cvalue EXCEPT ![c] = ZeroChatResponse]
        /\ cerr' = [cerr EXCEPT ![c] = ErrNil]
    /\ UNCHANGED <<tempMem, nonConcVars>>

\* json.Unmarshal(data, &temp) of ChatResponse.UnmarshalJSON.
DecodeShell ==
    /\ \E c \in Callers :
        /\ cpc[c] = "called" /\ cop[c] = "decode response"
        /\ LET bad == SyntaxError(cinput[c])
               temp == DecTempChatResponse(cinput[c].doc)
           IN IF bad \/ temp.err
              THEN /\ cpc' = [cpc EXCEPT ![c] = "done"]
                   /\ cerr' = [cerr EXCEPT ![c] = ErrShell]
                   /\ UNCHANGED tempMem
              ELSE /\ cpc' = [cpc EXCEPT ![c] = "shelled"]
                   /\ tempMem' = [tempMem EXCEPT ![TempSlot(c)] =
                                     [k |-> "TempChatResponse", val |-> temp.val]]
                   /\ UNCHANGED cerr
    /\ UNCHANGED <<cop, cinput, cvalue, nonConcVars>>

\* The copy of temp's fields into the receiver.
DecodeCopy ==
    /\ \E c \in Callers :
        /\ cpc[c] = "shelled" /\ cop[c] = "decode response"
        /\ tempMem[TempSlot(c)].k = "TempChatResponse"
        /\ cpc' = [cpc EXCEPT ![c] = "copied"]
        /\ cvalue' = [cvalue EXCEPT ![c] =
                         CopyShell(cvalue[c], tempMem[TempSlot(c)].val)]
    /\ UNCHANGED <<cop, cinput, cerr, tempMem, nonConcVars>>

\* The classification of the result and the decode of the payload.
DecodePayload ==
    /\ \E c \in Callers :
        /\ cpc[c] = "copied" /\ cop[c] = "decode response"
        /\ LET u == DecodeResult(cvalue[c])
           IN /\ cpc' = [cpc EXCEPT ![c] = "done"]
              /\ cvalue' = [cvalue EXCEPT ![c] = u.cr]
              /\ cerr' = [cerr EXCEPT ![c] = u.err]
    /\ UNCHANGED <<cop, cinput, tempMem, nonConcVars>>

\* A goroutine calls json.Unmarshal(b, req) with its own zero
\* ChatCompletionRequest.
StartDecodeRequest ==
    /\ \E c \in Callers, b \in ConcRequests :
        /\ cpc[c] = "idle"
        /\ cpc' = [cpc EXCEPT ![c] = "called"]
        /\ cop' = [cop EXCEPT ![c] = "decode request"]
        /\ cinput' = [cinput EXCEPT ![c] = b]
        /\ cvalue' = [cvalue EXCEPT ![c] = ZeroChatCompletionRequest]
        /\ cerr' = [cerr EXCEPT ![c] = ErrNil]
    /\ UNCHANGED <<tempMem, nonConcVars>>

\* json.Unmarshal(data, &temp) of ChatCompletionRequest.UnmarshalJSON.
DecodeRequestShell ==
    /\ \E c \in Callers :
        /\ cpc[c] = "called" /\ cop[c] = "decode request"
        /\ LET sh == RequestShell(cvalue[c], cinput[c])
           IN /\ cvalue' = [cvalue EXCEPT ![c] = sh.r]
              /\ cerr' = [cerr EXCEPT ![c] = sh.err]
              /\ IF sh.err # ErrNil
                 THEN /\ cpc' = [cpc EXCEPT ![c] = "done"]
                      /\ UNCHANGED tempMem
                 ELSE /\ cpc' = [cpc EXCEPT ![c] = "shelled"]
                      /\ tempMem' = [tempMem EXCEPT ![TempSlot(c)] =
                                        [k |-> "raw messages", raw |-> sh.raw]]
    /\ UNCHANGED <<cop, cinput, nonConcVars>>

\* The loop over temp.Messages.
DecodeRequestLoop ==
    /\ \E c \in Callers :
        /\ cpc[c] = "shelled" /\ cop[c] = "decode request"
        /\ tempMem[TempSlot(c)].k = "raw messages"
        /\ LET u == RequestLoop(cvalue[c], tempMem[TempSlot(c)].raw)
           IN /\ cpc' = [cpc EXCEPT ![c] = "done"]
              /\ cvalue' = [cvalue EXCEPT ![c] = u.r]
              /\ cerr' = [cerr EXCEPT ![c] = u.err]
    /\ UNCHANGED <<cop, cinput, tempMem, nonConcVars>>

\* A goroutine calls ChatWithTools, which builds its request value.
StartEncode ==
    /\ \E c \in Callers, a \in ConcArguments :
        /\ cpc[c] = "idle"
        /\ cpc' = [cpc EXCEPT ![c] = "called"]
        /\ cop' = [cop EXCEPT ![c] = "encode request"]
        /\ cinput' = [cinput EXCEPT ![c] =
                         [Model |-> a.Model, Messages |-> a.Messages,
                          Tools |-> a.Tools, Stream |-> FALSE]]
        /\ cvalue' = [cvalue EXCEPT ![c] = NoBody]
        /\ cerr' = [cerr EXCEPT ![c] = ErrNil]
    /\ UNCHANGED <<tempMem, nonConcVars>>

\* json.Marshal(request).
EncodeMarshal ==
    /\ \E c \in Callers :
        /\ cpc[c] = "called" /\ cop[c] = "encode request"
        /\ cpc' = [cpc EXCEPT ![c] = "done"]
        /\ cvalue' = [cvalue EXCEPT ![c] =
                         [valid |-> TRUE, doc |-> EncChatCompletionRequest(cinput[c])]]
    /\ UNCHANGED <<cop, cinput, cerr, tempMem, nonConcVars>>

\* The call has returned; its locals are gone.
FinishCall ==
    /\ \E c \in Callers :
        /\ cpc[c] = "done"
        /\ cpc' = [cpc EXCEPT ![c] = "idle"]
        /\ cop' = [cop EXCEPT ![c] = "none"]
        /\ cinput' = [cinput EXCEPT ![c] = NoBody]
        /\ cvalue' = [cvalue EXCEPT ![c] = NoBody]
        /\ cerr' = [cerr EXCEPT ![c] = ErrNil]
        /\ tempMem' = [tempMem EXCEPT ![TempSlot(c)] = NoTemp]
    /\ UNCHANGED nonConcVars

NextConcurrent ==
    \/ StartDecode
    \/ DecodeShell
    \/ DecodeCopy
    \/ DecodePayload
    \/ StartDecodeRequest
    \/ DecodeRequestShell
    \/ DecodeRequestLoop
    \/ StartEncode
    \/ EncodeMarshal
    \/ FinishCall

SpecConcurrent == Init /\ [][NextConcurrent]_vars

\* The result of caller c's call when it runs alone.
SoloResult(c) ==
    CASE cop[c] = "decode response" ->
            LET u == UnmarshalJSON(ZeroChatResponse, cinput[c])
            IN [value |-> u.cr, err |-> u.err]
      [] cop[c] = "decode request" ->
            LET u == RequestUnmarshalJSON(ZeroChatCompletionRequest, cinput[c])
            IN [value |-> u.r, err |-> u.err]
      [] cop[c] = "encode request" ->
            [value |-> [valid |-> TRUE, doc |-> EncChatCompletionRequest(cinput[c])],
             err |-> ErrNil]
      [] OTHER -> [value |-> NoBody, err |-> ErrNil]

\* C24: with several callers decoding responses and encoding and decoding
\* requests at the same time, each on its own input and target, every call
\* that has returned gives the value and the error it gives when run alone,
\* under every interleaving of the calls' steps.
C24_ConcurrentEqualsSolo ==
    \A c \in Callers :
        cpc[c] = "done" => [value |-> cvalue[c], err |-> cerr[c]] = SoloResult(c)

\* Two response decodes of different payloads overlap: one has returned
\* while the other is between filling its temp and reading it.
C24_Witness ==
    /\ cpc[1] = "done" /\ cop[1] = "decode response" /\ cerr[1] = ErrNil
    /\ cpc[2] = "shelled" /\ cop[2] = "decode response"
    /\ cinput[1] # cinput[2]
    /\ cvalue[1].IsLegacyResult

(***************************************************************************)
(* The same payload sent with its keys in another order or with fields      *)
(* added.  On the wire an object is a list of key/value pairs; the decoder  *)
(* of encoding/json walks the list in order, matches each key to a struct   *)
(* field by its name, exactly or ignoring case, decodes the value into that *)
(* field and skips a key that matches no field.                             *)
(***************************************************************************)
OObj(p) == [k |-> "pairs", p |-> p]     \* an object as the pairs on the wire

\* The field name a key is matched to when no field has exactly that name:
\* the match ignores case.
FoldKey(key) ==
    CASE key \in {"Choices", "CHOICES"} -> "choices"
      [] key \in {"Response", "RESPONSE"} -> "response"
      [] OTHER -> key

\* The position of the last pair whose key is matched to field f: when two
\* keys go to one field the later value replaces the earlier.
LastPair(p, f) ==
    CHOOSE i \in 1..Len(p) :
        /\ FoldKey(p[i].key) = f
        /\ \A j \in (i + 1)..Len(p) : FoldKey(p[j].key) # f

\* The document as the struct decoders see it: per object, each field with
\* the value of the last key matched to it.
RECURSIVE Scan(_)
Scan(v) ==
    CASE v.k = "pairs" ->
            Obj([f \in {FoldKey(v.p[i].key) : i \in 1..Len(v.p)} |->
                    Scan(v.p[LastPair(v.p, f)].val)])
      [] v.k = "array" /\ "a" \in DOMAIN v -> Arr([i \in 1..Len(v.a) |-> Scan(v.a[i])])
      [] OTHER -> v

RECURSIVE KeySeq(_)
KeySeq(S) ==
    IF S = {} THEN <<>>
    ELSE LET x == CHOOSE y \in S : TRUE IN <<x>> \o KeySeq(S \ {x})

Reverse(q) == [i \in 1..Len(q) |-> q[Len(q) + 1 - i]]

Orders == {"as sent", "reversed"}

\* Fields a later server version may add: names no struct field has, and
\* names that differ from a known one in case only.
Extras ==
    {"none", "unknown first", "unknown last", "unknown object last",
     "case variant first", "case variant last"}

ExtraPair(extra) ==
    CASE extra \in {"unknown first", "unknown last"} ->
            [key |-> "x_request_id", val |-> Str("abc")]
      [] extra = "unknown object last" ->
            [key |-> "x_meta",
             val |-> OObj(<<[key |-> "choices", val |-> Arr(<<>>)],
                            [key |-> "id", val |-> Str("call_abc")]>>)]
      [] OTHER -> [key |-> "Choices", val |-> Arr(<<>>)]

AddExtra(p, extra) ==
    CASE extra = "none" -> p
      [] extra \in {"unknown first", "case variant first"} -> <<ExtraPair(extra)>> \o p
      [] OTHER -> p \o <<ExtraPair(extra)>>

\* The wire form of a payload: every object written out as its pairs, in
\* the given order, with the extra field added to every object.
RECURSIVE Ordered(_, _, _)
Ordered(v, order, extra) ==
    CASE v.k = "object" /\ "o" \in DOMAIN v ->
            LET present == {f \in DOMAIN v.o : v.o[f].k # "absent"}
                ks == IF order = "reversed" THEN Reverse(KeySeq(present))
                      ELSE KeySeq(present)
            IN OObj(AddExtra([i \in 1..Len(ks) |->
                                 [key |-> ks[i],
                                  val |-> Ordered(v.o[ks[i]], order, extra)]],
                             extra))
      [] v.k = "array" /\ "a" \in DOMAIN v ->
            Arr([i \in 1..Len(v.a) |-> Ordered(v.a[i], order, extra)])
      [] OTHER -> v

VariantBodies ==
    {b \in ReuseBodies : b.valid}
        \cup {BodyOf(Bool(TRUE),
                      ResultObj(Absent,
                                Arr(<<TcLegacy("gablorken", RawV("object", ArgObject))>>),
                                Str("This is a legacy response."), UsageA)),
               BodyOf(Bool(TRUE),
                      ResultObj(Arr(<<StandardChoice(Str("Hello there!"), Absent, Absent),
                                      StandardChoice(Null, Str("thinking"),
                                          Arr(<<TcModern(Str("call_openai_123"))>>))>>),
                                Absent, Absent, UsageA))}

\* json.Unmarshal(data, &response) of a variant of a payload.
DecodeVariant ==
    /\ vpc = "idle"
    /\ \E b \in VariantBodies, order \in Orders, extra \in Extras :
        LET w == Ordered(b.doc, order, extra) IN
        /\ vpc' = "decoded"
        /\ vBase' = b
        /\ vHow' = [order |-> order, extra |-> extra]
        /\ vWire' = w
        /\ vOut' = UnmarshalJSON(ZeroChatResponse, [valid |-> TRUE, doc |-> Scan(w)])
    /\ UNCHANGED nonVariantVars

DoneVariant ==
    /\ vpc = "decoded"
    /\ vpc' = "idle"
    /\ vBase' = NoBody
    /\ vHow' = [order |-> "as sent", extra |-> "none"]
    /\ vWire' = Null
    /\ vOut' = [cr |-> ZeroChatResponse, err |-> ErrNil, branch |-> "None"]
    /\ UNCHANGED nonVariantVars

NextVariant ==
    \/ DecodeVariant
    \/ DoneVariant

SpecVariant == Init /\ [][NextVariant]_vars

\* The outcome of decoding the payload as first sent.
BaseOut ==
    UnmarshalJSON(ZeroChatResponse,
                  [valid |-> TRUE, doc |-> Scan(Ordered(vBase.doc, "as sent", "none"))])

SameOutcome(a, b) ==
    /\ a.branch = b.branch
    /\ a.err = b.err
    /\ Observed(a.cr) = Observed(b.cr)

\* C22: a payload whose objects list their keys in another order, or carry
\* fields that the payload as first sent does not have and the schema does
\* not know, at any level, decodes to the same format, content, reasoning
\* content, tool calls and usage as the payload as first sent.
C22_OrderAndUnknownFieldsIgnored ==
    vpc = "decoded" => SameOutcome(vOut, BaseOut)

\* The number a JSON value decodes to in a numeric field that starts at
\* zero, as text: an absent key and a null leave the zero.
WNumberText(v) ==
    CASE v.k \in {"absent", "null"} -> "0"
      [] v.k = "number" /\ "n" \in DOMAIN v -> ToString(v.n)
      [] v.k = "number" -> Join(v.t)
      [] OTHER -> "not a number"

WParam(key) == WNumberText(Get(reqBody.doc, key))

\* C23: the request body that ChatWithTools marshals carries the caller's
\* model parameters as the top-level keys temperature, top_p, top_k and
\* max_tokens with the caller's values, and with no parameters (nil) each of
\* the four decodes as zero.
C23_ParametersFlattened ==
    ReqMarshalled =>
        IF params = NilParams
        THEN \A key \in {"temperature", "top_p", "top_k", "max_tokens"} :
                WParam(key) = "0"
        ELSE /\ WParam("temperature") = params[1].Temperature
             /\ WParam("top_p") = params[1].TopP
             /\ WParam("top_k") = ToString(params[1].TopK)
             /\ WParam("max_tokens") = ToString(params[1].MaxTokens)
====
